---------------------------- MODULE Spec2Model ----------------------------
(***************************************************************************)
(* A model of the probability / statistics scripts of my_AI_ML_journey.   *)
(*                                                                         *)
(* Every script is an independent load -> validate -> compute -> report   *)
(* pipeline, so the module holds one specification per script family.     *)
(* Each family owns its variables; the variables of the other families    *)
(* stay at their idle values under that family's specification.           *)
(*                                                                         *)
(* Real numbers are exact rationals <<n, d>> with d > 0 in lowest terms.  *)
(* The IEEE results of a division by zero are NaN = <<0, 0>>,             *)
(* Inf = <<1, 0>> and NegInf = <<-1, 0>>; Python's None is <<>>.          *)
(***************************************************************************)
EXTENDS Integers, Sequences, FiniteSets, TLC

VARIABLES
    nmEngine,      \* _minMaxNormalize: the engine class whose static method is called
    nmSeries,      \* _minMaxNormalize: the series passed in
    nmResult,      \* _minMaxNormalize: the series returned (None before the call)
    nmPc,          \* _minMaxNormalize: "start" | "done"
    gmEngine,      \* geometric mean: which engine class runs
    gmSource,      \* geometric mean: the spreadsheet at inputFilePath
    gmDataFrame,   \* geometric mean: self.dataFrame (None until read)
    gmResult,      \* geometric mean: the result table returned (None until computed)
    gmSaved,       \* geometric mean: the table written by to_excel (None until saved)
    gmError,       \* geometric mean: the exception that ended the pipeline
    gmPc,          \* geometric mean: position of main() / run()
    wmEngine,      \* weighted mean: which engine class runs
    wmSource,      \* weighted mean: the spreadsheet at the input path
    wmDataFrame,   \* weighted mean: self.dataFrame (None until read)
    wmSimpleMean,  \* weighted mean: the series computeSimpleMean returned
    wmResult,      \* weighted mean: the series the weighted mean returned
    wmSaved,       \* weighted mean: the table written by saveEnhancedDataset
    wmError,       \* weighted mean: the exception that ended runAnalysis
    wmPc,          \* weighted mean: position of runAnalysis()
    peSource,      \* probability engine: the spreadsheet at inFilePath
    peDataFrame,   \* probability engine: self.dataFrame (None until loaded)
    peCall,        \* probability engine: arguments of the last conditionalProbability call
    peReturn,      \* probability engine: what that call returned (None if it raised)
    peError,       \* probability engine: the exception the last method call raised
    evSource,      \* expected value: the file at inFilePath
    evData,        \* expected value: self.data (None until read)
    evOp,          \* expected value: the method called last
    evReturn,      \* expected value: what that call returned (None if it raised)
    evError,       \* expected value: the exception that call raised
    dsSource,      \* record dataset: the spreadsheet at inFilePath
    dsRecords,     \* record dataset: self.records
    dsLoads,       \* record dataset: how many times load() was called
    dsOp,          \* record dataset: the method called last
    dsReturn,      \* record dataset: what that call returned (None if it raised)
    dsError,       \* record dataset: the exception that call raised
    mcKind,        \* Monte Carlo: "TrialRunner" or "ProbabilityExperiment"
    mcLabels,      \* Monte Carlo: the label column of the experiment's dataFrame
    mcProbability, \* Monte Carlo: trial.inProbability / passProbability (None until set)
    mcTrials,      \* Monte Carlo: inNumTrials / inTrials (0 until an object is constructed)
    mcResults,     \* Monte Carlo: runner.trialResults
    mcExecutions,  \* Monte Carlo: how many times executeTrials / run was called
    mcDrawn,       \* Monte Carlo: how many numbers random.random() has handed out
    mcOp,          \* Monte Carlo: the constructor or method called last
    mcArg,         \* Monte Carlo: the argument of that call (None if it takes none)
    mcReturn,      \* Monte Carlo: what that call returned (None if nothing)
    mcError,       \* Monte Carlo: the exception that call raised
    fdEngine,      \* frequency distribution: which script's engine class
    fdSeries,      \* frequency distribution: the series handed to the engine
    fdBins,        \* frequency distribution: inNumberOfBins
    fdTable,       \* frequency distribution: the table computeDistribution returned
    fdError,       \* frequency distribution: the exception computeDistribution raised
    fdPc,          \* frequency distribution: "start" | "done"
    ceKind,           \* "Fraud" (FraudProbabilityAnalyzer) or "Diesease" (DieseaseProbabilityAnalyzer)
    ceRecords,        \* self.transactions / self.patients
    ceOp,             \* the method called last
    ceReturn,         \* what calculateProbabilities returned, None before
    ceError,          \* the exception the last call raised, "None" if none
    ldScript,         \* loaders: "SensorQuality" | "BankFraud" | "CustomerSpending"
    ldSource,         \* loaders: the spreadsheet at inFilePath
    ldDataFrame,      \* loaders: what load() / loadData() returned, None before
    ldSeries,         \* loaders: the fraud rows' amounts the filter returned, None before
    ldStatistic,      \* loaders: what the engine computed, None before
    ldError,          \* loaders: the exception that left the try block, "None" if none
    ldHandler,        \* loaders: the except clause of main that caught it, "none" before
    ldPc,             \* loaders: position in main() / execute()
    svSource,         \* sales: the spreadsheet at inFilePath
    svData,           \* sales: self.data of the ExpectedValueCalculator, None before a load
    svOp,             \* sales: the method called last
    svReturn,         \* sales: what that call returned (None if nothing)
    svError,          \* sales: the exception that call raised, "None" if none
    bsKind,           \* bias: which script runs (hiring, healthcare, loans)
    bsSubjects,       \* bias: the applicants / patients / customers list of each system
    bsOp,             \* bias: the method called last and the system it was called on
    bsThreshold,      \* bias: the inThreshold of that call (None if it takes none)
    bsReturn,         \* bias: what that call returned (None if nothing)
    tcSeries,         \* telecom: the Call_Drops column handed to the distribution engine
    tcDistribution,   \* telecom: the frame computeDistribution returned (None before the call)
    tcOp,             \* telecom: the method called last
    tcReturn,         \* telecom: what that call returned (None if nothing)
    tcError           \* telecom: the exception that call raised, "None" if none

varsNormalize == <<nmEngine, nmSeries, nmResult, nmPc>>
varsGeometric == <<gmEngine, gmSource, gmDataFrame, gmResult, gmSaved, gmError, gmPc>>

varsWeighted ==
    <<wmEngine, wmSource, wmDataFrame, wmSimpleMean, wmResult, wmSaved, wmError, wmPc>>

varsProbability ==
    <<peSource, peDataFrame, peCall, peReturn, peError>>

varsExpected ==
    <<evSource, evData, evOp, evReturn, evError>>

varsDataSet ==
    <<dsSource, dsRecords, dsLoads, dsOp, dsReturn, dsError>>

varsMonteCarlo ==
    <<mcKind, mcLabels, mcProbability, mcTrials, mcResults, mcExecutions, mcDrawn, mcOp, mcArg, mcReturn, mcError>>

varsDistribution ==
    <<fdEngine, fdSeries, fdBins, fdTable, fdError, fdPc>>

varsCompound ==
    <<ceKind, ceRecords, ceOp, ceReturn, ceError>>

varsLoaders ==
    <<ldScript, ldSource, ldDataFrame, ldSeries, ldStatistic, ldError, ldHandler, ldPc>>

varsSales ==
    <<svSource, svData, svOp, svReturn, svError>>

varsBias ==
    <<bsKind, bsSubjects, bsOp, bsThreshold, bsReturn>>

varsTelecom ==
    <<tcSeries, tcDistribution, tcOp, tcReturn, tcError>>

vars ==
    <<varsNormalize, varsGeometric, varsWeighted, varsProbability, varsExpected, varsDataSet, varsMonteCarlo, varsDistribution, varsCompound, varsLoaders, varsSales, varsBias, varsTelecom>>

\* what each family leaves alone
outsideNormalize == <<varsGeometric, varsWeighted, varsProbability, varsExpected, varsDataSet, varsMonteCarlo, varsDistribution, varsCompound, varsLoaders, varsSales, varsBias, varsTelecom>>
outsideGeometric == <<varsNormalize, varsWeighted, varsProbability, varsExpected, varsDataSet, varsMonteCarlo, varsDistribution, varsCompound, varsLoaders, varsSales, varsBias, varsTelecom>>
outsideWeighted == <<varsNormalize, varsGeometric, varsProbability, varsExpected, varsDataSet, varsMonteCarlo, varsDistribution, varsCompound, varsLoaders, varsSales, varsBias, varsTelecom>>
outsideProbability == <<varsNormalize, varsGeometric, varsWeighted, varsExpected, varsDataSet, varsMonteCarlo, varsDistribution, varsCompound, varsLoaders, varsSales, varsBias, varsTelecom>>
outsideExpected == <<varsNormalize, varsGeometric, varsWeighted, varsProbability, varsDataSet, varsMonteCarlo, varsDistribution, varsCompound, varsLoaders, varsSales, varsBias, varsTelecom>>
outsideDataSet == <<varsNormalize, varsGeometric, varsWeighted, varsProbability, varsExpected, varsMonteCarlo, varsDistribution, varsCompound, varsLoaders, varsSales, varsBias, varsTelecom>>
outsideMonteCarlo == <<varsNormalize, varsGeometric, varsWeighted, varsProbability, varsExpected, varsDataSet, varsDistribution, varsCompound, varsLoaders, varsSales, varsBias, varsTelecom>>
outsideDistribution == <<varsNormalize, varsGeometric, varsWeighted, varsProbability, varsExpected, varsDataSet, varsMonteCarlo, varsCompound, varsLoaders, varsSales, varsBias, varsTelecom>>
outsideCompound == <<varsNormalize, varsGeometric, varsWeighted, varsProbability, varsExpected, varsDataSet, varsMonteCarlo, varsDistribution, varsLoaders, varsSales, varsBias, varsTelecom>>
outsideLoaders == <<varsNormalize, varsGeometric, varsWeighted, varsProbability, varsExpected, varsDataSet, varsMonteCarlo, varsDistribution, varsCompound, varsSales, varsBias, varsTelecom>>
outsideSales == <<varsNormalize, varsGeometric, varsWeighted, varsProbability, varsExpected, varsDataSet, varsMonteCarlo, varsDistribution, varsCompound, varsLoaders, varsBias, varsTelecom>>
outsideBias == <<varsNormalize, varsGeometric, varsWeighted, varsProbability, varsExpected, varsDataSet, varsMonteCarlo, varsDistribution, varsCompound, varsLoaders, varsSales, varsTelecom>>
outsideTelecom == <<varsNormalize, varsGeometric, varsWeighted, varsProbability, varsExpected, varsDataSet, varsMonteCarlo, varsDistribution, varsCompound, varsLoaders, varsSales, varsBias>>

-----------------------------------------------------------------------------
(* Bounds of the model *)

MaxRows == 3       \* longest series / dataset explored
MaxValue == 3      \* series values of the normalisation check range over 0..MaxValue
MaxGmRows == 2     \* most rows of a geometric-mean dataset
MaxWmRows == 2     \* most rows of a weighted-mean dataset
MaxPeRows == 3     \* most rows of a conditional-probability dataset
MaxEvRows == 2     \* most rows of an expected-value dataset
MaxDsRows == 2     \* most rows of a record-list dataset
MaxLoads == 2      \* most load() calls on one record-list dataset
MaxTrials == 2     \* largest trial count of a simulation
MaxExecutions == 2 \* most executeTrials() / run() calls on one object
MaxLabels == 2     \* most rows of an experiment's dataset
MaxAmount == 3     \* largest value of a series handed to computeDistribution
MaxFdRows == 3     \* longest series handed to computeDistribution
MaxBins == 3       \* largest inNumberOfBins
MaxCeRecords == 3  \* most records added to a compound-event analyzer
MaxLdRows == 2     \* most rows of a sheet handed to a loader
MaxSvRows == 2     \* most rows of a sales sheet
MaxSubjects == 2   \* most subjects added to one decision system
MaxTcRows == 5     \* most records of a call-drop series
LdNumberOfBins == 10  \* inNumberOfBins main() passes to the engine
MantissaBits == 53  \* significant bits of a float64, the dtype of the Probability column

-----------------------------------------------------------------------------
(* Exact rational arithmetic *)

Abs(x) == IF x < 0 THEN -x ELSE x

RECURSIVE GCD(_, _)
GCD(a, b) == IF b = 0 THEN a ELSE GCD(b, a % b)

\* n/d in lowest terms with a positive denominator (d # 0)
Rat(n, d) ==
    LET g == GCD(Abs(n), Abs(d))
        s == IF d < 0 THEN -1 ELSE 1
    IN  <<(s * n) \div g, (s * d) \div g>>

Int2Rat(i) == <<i, 1>>
Zero == <<0, 1>>
One == <<1, 1>>
NaN == <<0, 0>>
Inf == <<1, 0>>
NegInf == <<-1, 0>>
None == <<>>
IsFinite(a) == a # None /\ a[2] # 0

\* the operations cancel common factors before they multiply, which keeps
\* the intermediate products small
RAdd(a, b) ==
    LET g == GCD(a[2], b[2])
    IN  Rat(a[1] * (b[2] \div g) + b[1] * (a[2] \div g), (a[2] \div g) * b[2])
RNeg(a) == <<-a[1], a[2]>>
RSub(a, b) == RAdd(a, RNeg(b))
RMul(a, b) ==
    LET g1 == GCD(Abs(a[1]), b[2])
        g2 == GCD(Abs(b[1]), a[2])
    IN  Rat((a[1] \div g1) * (b[1] \div g2), (a[2] \div g2) * (b[2] \div g1))
RDiv(a, b) == RMul(a, Rat(b[2], b[1]))
RLe(a, b) == a[1] * b[2] <= b[1] * a[2]
RLt(a, b) == a[1] * b[2] < b[1] * a[2]
RAbs(a) == <<Abs(a[1]), a[2]>>

RECURSIVE RSum(_)
RSum(s) == IF s = <<>> THEN Zero ELSE RAdd(s[1], RSum(Tail(s)))

RECURSIVE RMaxOf(_)
RMaxOf(s) ==
    IF Len(s) = 1 THEN s[1]
    ELSE LET m == RMaxOf(Tail(s)) IN IF RLe(m, s[1]) THEN s[1] ELSE m

RECURSIVE RMinOf(_)
RMinOf(s) ==
    IF Len(s) = 1 THEN s[1]
    ELSE LET m == RMinOf(Tail(s)) IN IF RLe(s[1], m) THEN s[1] ELSE m

\* the non-empty sequences over S of length at most n
SeqsUpTo(S, n) == UNION {[1..k -> S] : k \in 1..n}

-----------------------------------------------------------------------------
(* Idle values: a family's variables under another family's specification *)

IdleNormalize ==
    /\ nmEngine = "Healthcare"
    /\ nmSeries = <<>>
    /\ nmResult = None
    /\ nmPc = "idle"

IdleGeometric ==
    /\ gmEngine = "SimpleGM"
    /\ gmSource = [exists |-> FALSE, columns |-> {}, rows |-> <<>>]
    /\ gmDataFrame = None
    /\ gmResult = None
    /\ gmSaved = None
    /\ gmError = "None"
    /\ gmPc = "idle"

IdleWeighted ==
    /\ wmEngine = "HealthCareWMEngine"
    /\ wmSource = [exists |-> FALSE, columns |-> {}, rows |-> <<>>]
    /\ wmDataFrame = None
    /\ wmSimpleMean = None
    /\ wmResult = None
    /\ wmSaved = None
    /\ wmError = "None"
    /\ wmPc = "idle"

IdleProbability ==
    /\ peSource = [exists |-> FALSE, rows |-> <<>>]
    /\ peDataFrame = None
    /\ peCall = None
    /\ peReturn = None
    /\ peError = "None"

IdleExpected ==
    /\ evSource = [exists |-> FALSE, xlsx |-> TRUE, columns |-> {}, rows |-> <<>>]
    /\ evData = None
    /\ evOp = "idle"
    /\ evReturn = None
    /\ evError = "None"

IdleDataSet ==
    /\ dsSource = [exists |-> FALSE, columns |-> {}, rows |-> <<>>]
    /\ dsRecords = <<>>
    /\ dsLoads = 0
    /\ dsOp = "idle"
    /\ dsReturn = None
    /\ dsError = "None"

IdleMonteCarlo ==
    /\ mcKind = "TrialRunner"
    /\ mcLabels = <<>>
    /\ mcProbability = None
    /\ mcTrials = 0
    /\ mcResults = <<>>
    /\ mcExecutions = 0
    /\ mcDrawn = 0
    /\ mcOp = "idle"
    /\ mcArg = None
    /\ mcReturn = None
    /\ mcError = "None"

IdleDistribution ==
    /\ fdEngine = "BankFraud"
    /\ fdSeries = <<>>
    /\ fdBins = 0
    /\ fdTable = None
    /\ fdError = "None"
    /\ fdPc = "idle"

IdleCompound ==
    /\ ceKind = "Fraud"
    /\ ceRecords = <<>>
    /\ ceOp = "idle"
    /\ ceReturn = None
    /\ ceError = "None"

IdleLoaders ==
    /\ ldScript = "SensorQuality"
    /\ ldSource = [readable |-> FALSE, columns |-> {}, rows |-> <<>>]
    /\ ldDataFrame = None
    /\ ldSeries = None
    /\ ldStatistic = None
    /\ ldError = "None"
    /\ ldHandler = "none"
    /\ ldPc = "idle"

IdleSales ==
    /\ svSource = [exists |-> FALSE, xlsx |-> TRUE, columns |-> {}, rows |-> <<>>]
    /\ svData = None
    /\ svOp = "idle"
    /\ svReturn = None
    /\ svError = "None"

IdleBias ==
    /\ bsKind = "Hiring"
    /\ bsSubjects = [sys \in {"unbiased", "biased"} |-> <<>>]
    /\ bsOp = [method |-> "idle", sys |-> "none"]
    /\ bsThreshold = None
    /\ bsReturn = None

IdleTelecom ==
    /\ tcSeries = <<>>
    /\ tcDistribution = None
    /\ tcOp = "idle"
    /\ tcReturn = None
    /\ tcError = "None"

IdleOutsideNormalize == IdleGeometric /\ IdleWeighted /\ IdleProbability /\ IdleExpected /\ IdleDataSet /\ IdleMonteCarlo /\ IdleDistribution /\ IdleCompound /\ IdleLoaders /\ IdleSales /\ IdleBias /\ IdleTelecom
IdleOutsideGeometric == IdleNormalize /\ IdleWeighted /\ IdleProbability /\ IdleExpected /\ IdleDataSet /\ IdleMonteCarlo /\ IdleDistribution /\ IdleCompound /\ IdleLoaders /\ IdleSales /\ IdleBias /\ IdleTelecom
IdleOutsideWeighted == IdleNormalize /\ IdleGeometric /\ IdleProbability /\ IdleExpected /\ IdleDataSet /\ IdleMonteCarlo /\ IdleDistribution /\ IdleCompound /\ IdleLoaders /\ IdleSales /\ IdleBias /\ IdleTelecom
IdleOutsideProbability == IdleNormalize /\ IdleGeometric /\ IdleWeighted /\ IdleExpected /\ IdleDataSet /\ IdleMonteCarlo /\ IdleDistribution /\ IdleCompound /\ IdleLoaders /\ IdleSales /\ IdleBias /\ IdleTelecom
IdleOutsideExpected == IdleNormalize /\ IdleGeometric /\ IdleWeighted /\ IdleProbability /\ IdleDataSet /\ IdleMonteCarlo /\ IdleDistribution /\ IdleCompound /\ IdleLoaders /\ IdleSales /\ IdleBias /\ IdleTelecom
IdleOutsideDataSet == IdleNormalize /\ IdleGeometric /\ IdleWeighted /\ IdleProbability /\ IdleExpected /\ IdleMonteCarlo /\ IdleDistribution /\ IdleCompound /\ IdleLoaders /\ IdleSales /\ IdleBias /\ IdleTelecom
IdleOutsideMonteCarlo == IdleNormalize /\ IdleGeometric /\ IdleWeighted /\ IdleProbability /\ IdleExpected /\ IdleDataSet /\ IdleDistribution /\ IdleCompound /\ IdleLoaders /\ IdleSales /\ IdleBias /\ IdleTelecom
IdleOutsideDistribution == IdleNormalize /\ IdleGeometric /\ IdleWeighted /\ IdleProbability /\ IdleExpected /\ IdleDataSet /\ IdleMonteCarlo /\ IdleCompound /\ IdleLoaders /\ IdleSales /\ IdleBias /\ IdleTelecom
IdleOutsideCompound == IdleNormalize /\ IdleGeometric /\ IdleWeighted /\ IdleProbability /\ IdleExpected /\ IdleDataSet /\ IdleMonteCarlo /\ IdleDistribution /\ IdleLoaders /\ IdleSales /\ IdleBias /\ IdleTelecom
IdleOutsideLoaders == IdleNormalize /\ IdleGeometric /\ IdleWeighted /\ IdleProbability /\ IdleExpected /\ IdleDataSet /\ IdleMonteCarlo /\ IdleDistribution /\ IdleCompound /\ IdleSales /\ IdleBias /\ IdleTelecom
IdleOutsideSales == IdleNormalize /\ IdleGeometric /\ IdleWeighted /\ IdleProbability /\ IdleExpected /\ IdleDataSet /\ IdleMonteCarlo /\ IdleDistribution /\ IdleCompound /\ IdleLoaders /\ IdleBias /\ IdleTelecom
IdleOutsideBias == IdleNormalize /\ IdleGeometric /\ IdleWeighted /\ IdleProbability /\ IdleExpected /\ IdleDataSet /\ IdleMonteCarlo /\ IdleDistribution /\ IdleCompound /\ IdleLoaders /\ IdleSales /\ IdleTelecom
IdleOutsideTelecom == IdleNormalize /\ IdleGeometric /\ IdleWeighted /\ IdleProbability /\ IdleExpected /\ IdleDataSet /\ IdleMonteCarlo /\ IdleDistribution /\ IdleCompound /\ IdleLoaders /\ IdleSales /\ IdleBias

-----------------------------------------------------------------------------
(* _minMaxNormalize of the composite-weighted-mean engines *)

CompositeEngines ==
    {"Banking", "Retail", "Education", "Insurance", "Healthcare"}

\* 005_BankCreditRisk, 003_RetailSales, 004_StudentGPA:
\*   return (inSeries - inSeries.min()) / inSeries.max() - inSeries.min()
\* Python reads this as ((x - min) / max) - min.
UnparenthesizedEngines == {"Banking", "Retail", "Education"}

\* 006_InsuranceClaims, 007_HealthCare:
\*   return (inSeries - inSeries.min()) / (inSeries.max() - inSeries.min())
MinMaxParenthesized(inSeries) ==
    LET lo == RMinOf(inSeries)
        hi == RMaxOf(inSeries)
    IN  IF hi = lo
        THEN [i \in DOMAIN inSeries |-> Zero]
        ELSE [i \in DOMAIN inSeries |-> RDiv(RSub(inSeries[i], lo), RSub(hi, lo))]

\* a division by the series maximum when it is 0: numpy yields nan for 0/0 and
\* +-inf otherwise, and the following "- min" keeps it
DivByMax(x, hi) ==
    IF hi # Zero THEN RDiv(x, hi)
    ELSE IF x = Zero THEN NaN
    ELSE IF RLt(Zero, x) THEN Inf ELSE NegInf

MinMaxUnparenthesized(inSeries) ==
    LET lo == RMinOf(inSeries)
        hi == RMaxOf(inSeries)
    IN  IF hi = lo
        THEN [i \in DOMAIN inSeries |-> Zero]
        ELSE [i \in DOMAIN inSeries |->
                LET q == DivByMax(RSub(inSeries[i], lo), hi)
                IN  IF IsFinite(q) THEN RSub(q, lo) ELSE q]

_minMaxNormalize(engine, inSeries) ==
    IF engine \in UnparenthesizedEngines
    THEN MinMaxUnparenthesized(inSeries)
    ELSE MinMaxParenthesized(inSeries)

NormalizeInputs == SeqsUpTo({Int2Rat(v) : v \in 0..MaxValue}, MaxRows)

InitNormalize ==
    /\ nmEngine \in CompositeEngines
    /\ nmSeries \in NormalizeInputs
    /\ nmResult = None
    /\ nmPc = "start"
    /\ IdleOutsideNormalize

CallMinMaxNormalize ==
    /\ nmPc = "start"
    /\ nmResult' = _minMaxNormalize(nmEngine, nmSeries)
    /\ nmPc' = "done"
    /\ UNCHANGED <<nmEngine, nmSeries>>
    /\ UNCHANGED outsideNormalize

NextNormalize == CallMinMaxNormalize

SpecNormalize == InitNormalize /\ [][NextNormalize]_vars

\* C1: in every composite-weighted-mean engine _minMaxNormalize returns
\* (x - min) / (max - min) for each element when max # min and the constant 0
\* when max = min, so every normalized value lies in [0, 1].
C1_MinMaxFormula ==
    nmPc = "done" =>
        LET lo == RMinOf(nmSeries)
            hi == RMaxOf(nmSeries)
        IN  \A i \in DOMAIN nmSeries :
                /\ IsFinite(nmResult[i])
                /\ nmResult[i] =
                     (IF hi = lo THEN Zero
                      ELSE RDiv(RSub(nmSeries[i], lo), RSub(hi, lo)))
                /\ RLe(Zero, nmResult[i])
                /\ RLe(nmResult[i], One)

-----------------------------------------------------------------------------
(* Geometric-mean pipelines: the four simple engines (001..004 of          *)
(* 001_SimpleGeometricMean, identical up to column names) and the three    *)
(* runtime-weighted engines of 002_WeightedGeometricMean.                  *)
(*                                                                         *)
(* A row is [id, rate, risk]: the grouping key, the percentage rate and    *)
(* the RiskCategory.  The Sector / AgeGroup / CustomerSegment of a row is  *)
(* the fixed category GmCategory.  log and exp are kept symbolic: a        *)
(* sum of c_i * log(g_i) is the set of terms <<g, c>> with the             *)
(* coefficients of equal growth factors added up, and the geometric mean   *)
(* is exp of it.                                                           *)

GmEngines == {"SimpleGM", "InvestmentWGM", "PatientWGM", "CustomerWGM"}
WeightedEngines == {"InvestmentWGM", "PatientWGM", "CustomerWGM"}

GmIds == {1, 2}
GmRates == {-100, -50, 0, 100}
GmRisks == {"Low", "High"}
GmRequiredColumns == {"id", "Year", "rate", "category", "risk"}

GmRows == [id : GmIds, rate : GmRates, risk : GmRisks]

\* np.random.uniform(0.8, 1.2): two of the values it can return
UniformDraws == {Rat(4, 5), Rat(11, 10)}

GmSources ==
    {[exists |-> FALSE, columns |-> {}, rows |-> <<>>]}
    \cup [exists : {TRUE},
          columns : {GmRequiredColumns, GmRequiredColumns \ {"Year"}},
          rows : {<<>>} \cup SeqsUpTo(GmRows, MaxGmRows)]

InitGeometric ==
    /\ gmEngine \in GmEngines
    /\ gmSource \in GmSources
    /\ gmDataFrame = None
    /\ gmResult = None
    /\ gmSaved = None
    /\ gmError = "None"
    /\ gmPc = "start"
    /\ IdleOutsideGeometric

\* an exception leaves main() / run(): nothing after the raising call runs
Raise(error) ==
    /\ gmError' = error
    /\ gmPc' = "failed"

\* loadDataset: self.dataFrame is assigned before the emptiness test
loadDataset ==
    /\ gmPc = "start"
    /\ IF ~gmSource.exists
       THEN /\ Raise("DatasetNotFoundError")
            /\ UNCHANGED gmDataFrame
       ELSE /\ gmDataFrame' = [rows |-> gmSource.rows, columns |-> gmSource.columns,
                               metrics |-> <<>>, Weight |-> <<>>]
            /\ IF gmSource.rows = <<>>
               THEN Raise("DatasetEmptyError")
               ELSE /\ gmPc' = "loaded"
                    /\ UNCHANGED gmError
    /\ UNCHANGED <<gmEngine, gmSource, gmResult, gmSaved>>
    /\ UNCHANGED outsideGeometric

validateSchema ==
    /\ gmPc = "loaded"
    /\ IF GmRequiredColumns \subseteq gmDataFrame.columns
       THEN /\ gmPc' = "schemaOk"
            /\ UNCHANGED gmError
       ELSE Raise("InvalidSchemaError")
    /\ UNCHANGED <<gmEngine, gmSource, gmDataFrame, gmResult, gmSaved>>
    /\ UNCHANGED outsideGeometric

\* the guard written with < instead of <=: a rate of exactly -100 passes
HasRateBelowMinus100(rows) == \E i \in DOMAIN rows : rows[i].rate < -100

\* (self.dataFrame[rate] <= -100).any()
HasInvalidRate(rows) == \E i \in DOMAIN rows : rows[i].rate <= -100

\* validateReturnRates / validateRates / validateBiomarkerRates / validateGrowthRates
validateRates ==
    /\ gmPc = "schemaOk"
    /\ IF HasInvalidRate(gmDataFrame.rows)
       THEN Raise("InvalidRateError")
       ELSE /\ gmPc' = "ratesOk"
            /\ UNCHANGED gmError
    /\ UNCHANGED <<gmEngine, gmSource, gmDataFrame, gmResult, gmSaved>>
    /\ UNCHANGED outsideGeometric

\* 1 + rate / 100
GrowthFactor(rate) == RAdd(One, Rat(rate, 100))

\* np.log of a growth factor: defined for g > 0, -inf at 0, nan below
LogArg(g) == IF RLt(Zero, g) THEN g ELSE IF g = Zero THEN NegInf ELSE NaN

GroupKeys(rows) == {rows[i].id : i \in DOMAIN rows}
GroupIndex(rows, k) == {i \in DOMAIN rows : rows[i].id = k}

RECURSIVE RSumOver(_, _)
RSumOver(f, S) ==
    IF S = {} THEN Zero
    ELSE LET i == CHOOSE j \in S : TRUE IN RAdd(f[i], RSumOver(f, S \ {i}))

\* sum over the rows I of coeff[i] * log(factor[i]), as terms <<g, c>>
LogTerms(factor, coeff, I) ==
    {<<g, RSumOver(coeff, {i \in I : LogArg(factor[i]) = g})>> :
        g \in {LogArg(factor[i]) : i \in I}}

\* the simple geometric mean with the log mean taken over every row of the
\* dataset, not over the rows of the group
GeometricMeanOverAllRows(rows) ==
    LET factor == [i \in DOMAIN rows |-> GrowthFactor(rows[i].rate)]
    IN  {LET I == GroupIndex(rows, k)
             n == Cardinality(I)
         IN  [id |-> k, Count |-> n,
              LogMean |-> LogTerms(factor, [i \in DOMAIN rows |-> Rat(1, Len(rows))], I)] :
         k \in GroupKeys(rows)}

\* computeGeometricMean of the simple engines: per group, the row count and
\* exp(mean(log(GrowthFactor)))
SimpleGeometricMean(rows) ==
    LET factor == [i \in DOMAIN rows |-> GrowthFactor(rows[i].rate)]
    IN  {LET I == GroupIndex(rows, k)
             n == Cardinality(I)
         IN  [id |-> k, Count |-> n,
              LogMean |-> LogTerms(factor, [i \in DOMAIN rows |-> Rat(1, n)], I)] :
         k \in GroupKeys(rows)}

computeGeometricMean ==
    /\ gmPc = "ratesOk"
    /\ gmEngine = "SimpleGM"
    /\ gmResult' = SimpleGeometricMean(gmDataFrame.rows)
    /\ gmPc' = "done"
    /\ UNCHANGED <<gmEngine, gmSource, gmDataFrame, gmSaved, gmError>>
    /\ UNCHANGED outsideGeometric

\* floor of the square root of a natural number, by bisection on lo..hi
RECURSIVE ISqrtIn(_, _, _)
ISqrtIn(n, lo, hi) ==
    IF lo >= hi THEN lo
    ELSE LET mid == (lo + hi + 1) \div 2
         IN  IF mid * mid <= n THEN ISqrtIn(n, mid, hi) ELSE ISqrtIn(n, lo, mid - 1)

\* the square root of a rational a >= 0, rounded down to a whole number: the
\* stand-in of the model for the floating-point square root
SqrtFloor(a) ==
    LET n == a[1] \div a[2]
    IN  Int2Rat(ISqrtIn(n, 0, IF n < 46340 THEN n ELSE 46340))

\* groupby(id)[rate].transform("std").fillna(default): the sample standard
\* deviation (ddof = 1) of the group's rates, NaN for a one-row group
Volatility(rows, i, default) ==
    LET I == GroupIndex(rows, rows[i].id)
        n == Cardinality(I)
        rate == [j \in DOMAIN rows |-> Int2Rat(rows[j].rate)]
        mean == RDiv(RSumOver(rate, I), Int2Rat(n))
        sq == [j \in DOMAIN rows |-> RMul(RSub(rate[j], mean), RSub(rate[j], mean))]
    IN  IF n = 1 THEN default
        ELSE SqrtFloor(RDiv(RSumOver(sq, I), Int2Rat(n - 1)))

\* 001_InvestmentRiskWGM: sectorBaseCap["Technology"] = 180000 counted in
\* thousands (the weights are ratios of MarketCap, so the unit cancels and
\* the products stay within TLC's integers), riskMultiplier, the
\* ExpenseRatioPercent map and riskFreeRate
SectorBaseCap == 180
RiskMultiplier(risk) == IF risk = "Low" THEN Rat(12, 10) ELSE Rat(8, 10)
ExpenseRatio(risk) == IF risk = "Low" THEN Rat(8, 10) ELSE Rat(18, 10)
RiskFreeRate == 4

\* 002_HealthcareAnalyticsWGM: DiseaseSeverityScore map and AgeRiskFactor["60+"]
DiseaseSeverityScore(risk) == IF risk = "Low" THEN Rat(12, 10) ELSE Rat(8, 10)
AgeRiskFactor == Rat(15, 10)

\* 003_RetailEcommerceWGM: segmetBaseValue["Regular"] = 15000 counted in
\* thousands, and the ChurnRiskFactor map
SegmentBaseValue == 15
ChurnRiskFactor(risk) == IF risk = "Low" THEN Rat(4, 10) ELSE Rat(14, 10)

\* the columns computeRuntimeMetrics adds to row i that computeWeights and
\* computeWeightedGeometricMean read (u is the row's np.random.uniform draw)
RuntimeMetrics(engine, rows, i, u) ==
    LET r == rows[i] IN
    IF engine = "InvestmentWGM" THEN
        LET vol == Volatility(rows, i, Int2Rat(5))
        IN  [Size |-> RMul(RMul(Int2Rat(SectorBaseCap), RiskMultiplier(r.risk)), u),
             VolatalityPercent |-> vol,
             Factor |-> ExpenseRatio(r.risk),
             \* (rate - riskFreeRate) / vol.replace(0, nan), then fillna(0)
             SharpRatio |-> IF vol = Zero THEN Zero
                            ELSE RDiv(Int2Rat(r.rate - RiskFreeRate), vol),
             GrowthFactor |-> GrowthFactor(r.rate)]
    ELSE IF engine = "PatientWGM" THEN
        [Size |-> DiseaseSeverityScore(r.risk),
         VolatalityPercent |-> Volatility(rows, i, Int2Rat(4)),
         Factor |-> AgeRiskFactor,
         SharpRatio |-> Zero,
         GrowthFactor |-> GrowthFactor(r.rate)]
    ELSE
        [Size |-> RMul(Int2Rat(SegmentBaseValue), u),
         VolatalityPercent |-> Volatility(rows, i, Int2Rat(6)),
         Factor |-> ChurnRiskFactor(r.risk),
         SharpRatio |-> Zero,
         GrowthFactor |-> GrowthFactor(r.rate)]

computeRuntimeMetrics ==
    /\ gmPc = "ratesOk"
    /\ gmEngine \in WeightedEngines
    /\ \E u \in [DOMAIN gmDataFrame.rows -> UniformDraws] :
         \* the patient engine draws no random number
         /\ gmEngine = "PatientWGM" => \A i \in DOMAIN u : u[i] = Rat(4, 5)
         /\ gmDataFrame' = [gmDataFrame EXCEPT !.metrics =
                [i \in DOMAIN gmDataFrame.rows |->
                    RuntimeMetrics(gmEngine, gmDataFrame.rows, i, u[i])]]
    /\ gmPc' = "metrics"
    /\ UNCHANGED <<gmEngine, gmSource, gmResult, gmSaved, gmError>>
    /\ UNCHANGED outsideGeometric

RMax0(a) == IF RLt(a, Zero) THEN Zero ELSE a

\* rawWeight of one row in computeWeights
RawWeight(engine, m) ==
    IF engine = "InvestmentWGM" THEN
        \* MarketCap * (1 + SharpRatio.clip(lower = 0)) / (1 + Vol) / (1 + Expense)
        RDiv(RDiv(RMul(m.Size, RAdd(One, RMax0(m.SharpRatio))),
                  RAdd(One, m.VolatalityPercent)),
             RAdd(One, m.Factor))
    ELSE IF engine = "PatientWGM" THEN
        \* DiseaseSeverityScore * AgeRiskFactor / (1 + Vol)
        RDiv(RMul(m.Size, m.Factor), RAdd(One, m.VolatalityPercent))
    ELSE
        \* CustomerLifetimeValue / (1 + Vol) / (1 + ChurnRiskFactor)
        RDiv(RDiv(m.Size, RAdd(One, m.VolatalityPercent)), RAdd(One, m.Factor))

\* self.dataFrame["Weight"] = rawWeight / rawWeight.sum(): the sum runs over
\* every row of the dataset
NormalizedWeights(engine, metrics) ==
    LET raw == [i \in DOMAIN metrics |-> RawWeight(engine, metrics[i])]
        total == RSum(raw)
    IN  [i \in DOMAIN metrics |-> RDiv(raw[i], total)]

computeWeights ==
    /\ gmPc = "metrics"
    /\ gmDataFrame' = [gmDataFrame EXCEPT !.Weight =
                          NormalizedWeights(gmEngine, gmDataFrame.metrics)]
    /\ gmPc' = "weighted"
    /\ UNCHANGED <<gmEngine, gmSource, gmResult, gmSaved, gmError>>
    /\ UNCHANGED outsideGeometric

\* per group: TotalWeight = sum of Weight, WeightedLogSum = sum of
\* Weight * log(GrowthFactor); the mean is exp(WeightedLogSum)
WeightedGeometricMean(df) ==
    LET factor == [i \in DOMAIN df.rows |-> df.metrics[i].GrowthFactor]
    IN  {LET I == GroupIndex(df.rows, k)
         IN  [id |-> k,
              TotalWeight |-> RSumOver(df.Weight, I),
              WeightedLogSum |-> LogTerms(factor, df.Weight, I)] :
         k \in GroupKeys(df.rows)}

computeWeightedGeometricMean ==
    /\ gmPc = "weighted"
    /\ gmResult' = WeightedGeometricMean(gmDataFrame)
    /\ gmPc' = "computed"
    /\ UNCHANGED <<gmEngine, gmSource, gmDataFrame, gmSaved, gmError>>
    /\ UNCHANGED outsideGeometric

\* run(): resultDF.to_excel(self.outputFilePath, index = False)
saveResult ==
    /\ gmPc = "computed"
    /\ gmSaved' = gmResult
    /\ gmPc' = "done"
    /\ UNCHANGED <<gmEngine, gmSource, gmDataFrame, gmResult, gmError>>
    /\ UNCHANGED outsideGeometric

NextGeometric ==
    \/ loadDataset
    \/ validateSchema
    \/ validateRates
    \/ computeGeometricMean
    \/ computeRuntimeMetrics
    \/ computeWeights
    \/ computeWeightedGeometricMean
    \/ saveResult

SpecGeometric == InitGeometric /\ [][NextGeometric]_vars

\* C2: in every weighted-geometric-mean engine the weights are normalized to
\* sum to 1 per group: the TotalWeight reported for every group equals 1.
C2_WeightsSumToOnePerGroup ==
    (gmPc \in {"computed", "done"} /\ gmEngine \in WeightedEngines) =>
        \A g \in gmResult : g.TotalWeight = One

\* C7: in the geometric-mean pipelines a dataset that contains a rate <= -100
\* is rejected with the invalid-rate error before any growth factor or
\* geometric mean is computed, and no result is produced or saved.
C7_InvalidRateRejected ==
    (gmSource.exists /\ \E i \in DOMAIN gmSource.rows : gmSource.rows[i].rate <= -100) =>
        /\ gmResult = None
        /\ gmSaved = None
        /\ gmDataFrame # None => (gmDataFrame.metrics = <<>> /\ gmDataFrame.Weight = <<>>)
        /\ gmPc \in {"start", "loaded", "schemaOk", "failed"}
        /\ (gmPc = "failed" /\ GmRequiredColumns \subseteq gmSource.columns)
              => gmError = "InvalidRateError"

\* a schema-valid dataset with a rate of -100 has been rejected by the rate guard
C7_Witness ==
    /\ gmPc = "failed"
    /\ gmError = "InvalidRateError"
    /\ \E i \in DOMAIN gmSource.rows : gmSource.rows[i].rate = -100

\* the table a run would hold if np.random.uniform returned 0.8 for every row
GmReferenceMetrics ==
    [i \in DOMAIN gmDataFrame.rows |->
        RuntimeMetrics(gmEngine, gmDataFrame.rows, i, Rat(4, 5))]

GmReferenceWeights == NormalizedWeights(gmEngine, GmReferenceMetrics)

\* C20: the weighted-geometric-mean engines are deterministic: two runs of
\* computeRuntimeMetrics, computeWeights and computeWeightedGeometricMean on
\* the same dataset produce the same weights and the same per-group results.
\* Stated against the run in which every random draw is 0.8: every run on the
\* same dataset has that run's weights and results.
C20_SameInputSameWeights ==
    (gmEngine \in WeightedEngines /\ gmPc \in {"weighted", "computed", "done"}) =>
        /\ gmDataFrame.Weight = GmReferenceWeights
        /\ gmPc \in {"computed", "done"} =>
              gmResult = WeightedGeometricMean(
                            [gmDataFrame EXCEPT !.metrics = GmReferenceMetrics,
                                                !.Weight = GmReferenceWeights])

\* np.exp of a sum of terms c * log(g): the single term 1 * log(g) gives g;
\* any other sum is left as its terms (None stands for "not a rational the
\* model computes")
ExpOfLogTerms(terms) ==
    IF \E g \in {t[1] : t \in terms} : terms = {<<g, One>>} /\ IsFinite(g)
    THEN (CHOOSE t \in terms : TRUE)[1]
    ELSE None

\* GeometricMeanReturnPercent = (GeometricMeanGrowth - 1) * 100
ReturnPercent(growth) == RMul(RSub(growth, One), Int2Rat(100))


\* the entries of a column whose row index is in I, in row order
RECURSIVE KeepAt(_, _)
KeepAt(s, I) ==
    IF s = <<>> THEN <<>>
    ELSE KeepAt(SubSeq(s, 1, Len(s) - 1), I) \o
         (IF Len(s) \in I THEN <<s[Len(s)]>> ELSE <<>>)

\* what the engine reports when the dataset holds the rows of group k only,
\* each row with the runtime metrics it has in this run
GroupAlone(k) ==
    LET I == GroupIndex(gmDataFrame.rows, k)
        rows == KeepAt(gmDataFrame.rows, I)
    IN  IF gmEngine = "SimpleGM" THEN SimpleGeometricMean(rows)
        ELSE LET metrics == KeepAt(gmDataFrame.metrics, I)
             IN  WeightedGeometricMean(
                    [rows |-> rows, columns |-> gmDataFrame.columns,
                     metrics |-> metrics,
                     Weight |-> NormalizedWeights(gmEngine, metrics)])

\* C24: groups are independent in every geometric-mean engine: the result
\* reported for a group depends on that group's rows only, so it is the
\* result the engine reports when every row of the other groups is removed.
C24_GroupsIndependent ==
    gmPc \in {"computed", "done"} =>
        \A g \in gmResult : g \in GroupAlone(g.id)

\* C22: for every group whose rates are all equal, so that every growth factor
\* of the group is the same g > 0, the simple geometric mean of the group is g
\* and the reported percent change is (g - 1) * 100, whatever the number of
\* rows of the group.
C22_EqualRatesGiveG ==
    (gmEngine = "SimpleGM" /\ gmPc = "done") =>
        \A group \in gmResult :
            LET I == GroupIndex(gmDataFrame.rows, group.id)
                rate == gmDataFrame.rows[CHOOSE i \in I : TRUE].rate
                g == GrowthFactor(rate)
            IN  (\A i \in I : gmDataFrame.rows[i].rate = rate) =>
                    /\ RLt(Zero, g)
                    /\ ExpOfLogTerms(group.LogMean) = g
                    /\ ReturnPercent(ExpOfLogTerms(group.LogMean)) = Int2Rat(rate)

\* a group of MaxGmRows rows that all hold the rate 100, next to nothing else
C22_Witness ==
    /\ gmEngine = "SimpleGM"
    /\ gmPc = "done"
    /\ \E group \in gmResult :
          /\ group.Count = MaxGmRows
          /\ \A i \in DOMAIN gmDataFrame.rows : gmDataFrame.rows[i].rate = 100
          /\ ExpOfLogTerms(group.LogMean) = Int2Rat(2)

-----------------------------------------------------------------------------
(* Weighted mean engines: direct weight, revenue weight, composite weight *)

WmEngines ==
    { "HealthCareWMEngine",            \* 001_PatientVitalsWM: weight column RiskWeight
      "RetailWeightedMeanEngine",      \* 002_RetailSalesSingleWeightWM: Revenue share
      "BankingCompositeWMEngine",      \* 005_BankCreditRiskMultipleWeightWM
      "HealthcareCompositeWMEngine" }  \* 007_HealthCareMultipleWeightWM

DerivingEngines == WmEngines \ {"HealthCareWMEngine"}

\* numericFeatures / targetFeatures of each engine
numericFeatures(engine) ==
    CASE engine = "HealthCareWMEngine" -> {"HeartRate", "SystolicBP", "OxygenLevel"}
      [] engine = "RetailWeightedMeanEngine" -> {"CustomerRating"}
      [] engine = "BankingCompositeWMEngine" -> {"CreditScore"}
      [] engine = "HealthcareCompositeWMEngine" -> {"TestValue"}

\* the columns validateSchema looks for
requiredColumns(engine) ==
    CASE engine = "HealthCareWMEngine" ->
            {"HeartRate", "SystolicBP", "OxygenLevel", "RiskWeight"}
      [] engine = "RetailWeightedMeanEngine" ->
            {"UnitPrice", "UnitsSold", "CustomerRating"}
      [] engine = "BankingCompositeWMEngine" ->
            {"CreditScore", "LoanAmount", "DefaultProbability"}
      [] engine = "HealthcareCompositeWMEngine" ->
            {"PatientId", "TestName", "TestValue", "NormalMin", "NormalMax",
             "RiskProbability", "CriticalFlag", "Age"}

\* the rows a spreadsheet may hold; every cell is a non-negative number
WmRows(engine) ==
    CASE engine = "HealthCareWMEngine" ->
            [HeartRate : {Int2Rat(10), Int2Rat(20)}, SystolicBP : {Int2Rat(120)},
             OxygenLevel : {Int2Rat(98)}, RiskWeight : {Zero, One, Int2Rat(3)}]
      [] engine = "RetailWeightedMeanEngine" ->
            [UnitPrice : {Zero, One}, UnitsSold : {One, Int2Rat(3)},
             CustomerRating : {Int2Rat(10), Int2Rat(20)}]
      [] engine = "BankingCompositeWMEngine" ->
            [CreditScore : {One, Int2Rat(2)}, LoanAmount : {Zero, Int2Rat(100)},
             DefaultProbability : {Zero, Rat(1, 2)}]
      [] engine = "HealthcareCompositeWMEngine" ->
            [PatientId : {1}, TestName : {"HbA1c"},
             TestValue : {Int2Rat(10), Int2Rat(15), Int2Rat(20)},
             NormalMin : {Int2Rat(10)}, NormalMax : {Int2Rat(20)},
             RiskProbability : {Zero, Rat(1, 2)}, CriticalFlag : {Zero, One},
             Age : {Int2Rat(50)}]

WmSources(engine) ==
    {[exists |-> FALSE, columns |-> {}, rows |-> <<>>]} \cup
    [exists : {TRUE},
     columns : {requiredColumns(engine),
                requiredColumns(engine) \ {CHOOSE c \in numericFeatures(engine) : TRUE}},
     rows : {<<>>} \cup SeqsUpTo(WmRows(engine), MaxWmRows)]

InitWeighted ==
    /\ wmEngine \in WmEngines
    /\ wmSource \in WmSources(wmEngine)
    /\ wmDataFrame = None
    /\ wmSimpleMean = None
    /\ wmResult = None
    /\ wmSaved = None
    /\ wmError = "None"
    /\ wmPc = "start"
    /\ IdleOutsideWeighted

\* an exception leaves runAnalysis(): nothing after the raising call runs
WmRaise(error) ==
    /\ wmError' = error
    /\ wmPc' = "failed"

Column(rows, name) == [i \in DOMAIN rows |-> rows[i][name]]

\* series * series, series * scalar, series + series, series.mean()
SeriesMul(a, b) == [i \in DOMAIN a |-> RMul(a[i], b[i])]
SeriesScale(c, a) == [i \in DOMAIN a |-> RMul(c, a[i])]
SeriesAdd(a, b) == [i \in DOMAIN a |-> RAdd(a[i], b[i])]
SeriesMean(a) == RDiv(RSum(a), Int2Rat(Len(a)))

\* numpy's true division: x / 0 is nan for x = 0 and +-inf otherwise, and it
\* raises nothing
NumpyDivide(x, y) ==
    IF y # Zero THEN RDiv(x, y)
    ELSE IF x = Zero THEN NaN
    ELSE IF RLt(Zero, x) THEN Inf ELSE NegInf

\* loadData / loadDataset: self.dataFrame is assigned before the emptiness test
wmLoadData ==
    /\ wmPc = "start"
    /\ IF ~wmSource.exists
       THEN WmRaise("DataFileNotFoundError") /\ UNCHANGED wmDataFrame
       ELSE /\ wmDataFrame' =
                  [columns |-> wmSource.columns, rows |-> wmSource.rows,
                   derived |-> <<>>, Weight |-> <<>>]
            /\ IF wmSource.rows = <<>>
               THEN WmRaise("DataSetEmptyError")
               ELSE wmPc' = "loaded" /\ UNCHANGED wmError
    /\ UNCHANGED <<wmEngine, wmSource, wmSimpleMean, wmResult, wmSaved>>
    /\ UNCHANGED outsideWeighted

wmValidateSchema ==
    /\ wmPc = "loaded"
    /\ IF requiredColumns(wmEngine) \subseteq wmDataFrame.columns
       THEN wmPc' = "schemaOk" /\ UNCHANGED wmError
       ELSE WmRaise("InvalidSchemaError")
    /\ UNCHANGED <<wmEngine, wmSource, wmDataFrame, wmSimpleMean, wmResult, wmSaved>>
    /\ UNCHANGED outsideWeighted

\* the columns addDerivationColumns / addDerivedColumns adds before the weight
DerivedColumns(engine, rows) ==
    CASE engine = "RetailWeightedMeanEngine" ->
            [Revenue |-> SeriesMul(Column(rows, "UnitPrice"), Column(rows, "UnitsSold"))]
      [] engine = "BankingCompositeWMEngine" ->
            LET exposure ==
                    SeriesMul(Column(rows, "LoanAmount"), Column(rows, "DefaultProbability"))
            IN  [Exposure |-> exposure,
                 NormExposure |-> _minMaxNormalize("Banking", exposure),
                 NormDefaultProbability |->
                     _minMaxNormalize("Banking", Column(rows, "DefaultProbability")),
                 NormCreditScore |->
                     _minMaxNormalize("Banking", Column(rows, "CreditScore"))]
      [] engine = "HealthcareCompositeWMEngine" ->
            LET deviation ==
                    [i \in DOMAIN rows |->
                        RAbs(RSub(rows[i].TestValue,
                                  RDiv(RAdd(rows[i].NormalMin, rows[i].NormalMax),
                                       Int2Rat(2))))]
                ageRisk ==
                    [i \in DOMAIN rows |-> RDiv(rows[i].Age, Int2Rat(100))]
            IN  [DeviationScore |-> deviation,
                 AgeRiskFactor |-> ageRisk,
                 NormDeviation |-> _minMaxNormalize("Healthcare", deviation),
                 NormRiskProbability |->
                     _minMaxNormalize("Healthcare", Column(rows, "RiskProbability")),
                 NormCriticalFlag |->
                     _minMaxNormalize("Healthcare", Column(rows, "CriticalFlag")),
                 NormAgeRisk |-> _minMaxNormalize("Healthcare", ageRisk),
                 NormTestValue |->
                     _minMaxNormalize("Healthcare", Column(rows, "TestValue"))]

\* the weight column before it is divided by its sum
RawWeights(engine, rows) ==
    LET d == DerivedColumns(engine, rows)
    IN  CASE engine = "HealthCareWMEngine" -> Column(rows, "RiskWeight")
          [] engine = "RetailWeightedMeanEngine" -> d.Revenue
          [] engine = "BankingCompositeWMEngine" ->
                SeriesAdd(SeriesAdd(SeriesScale(Rat(55, 100), d.NormExposure),
                                    SeriesScale(Rat(30, 100), d.NormDefaultProbability)),
                          SeriesScale(Rat(15, 100), d.NormCreditScore))
          [] engine = "HealthcareCompositeWMEngine" ->
                SeriesAdd(
                  SeriesAdd(
                    SeriesAdd(
                      SeriesAdd(SeriesScale(Rat(30, 100), d.NormTestValue),
                                SeriesScale(Rat(25, 100), d.NormDeviation)),
                      SeriesScale(Rat(20, 100), d.NormRiskProbability)),
                    SeriesScale(Rat(15, 100), d.NormCriticalFlag)),
                  SeriesScale(Rat(10, 100), d.NormAgeRisk))

\* addDerivationColumns / addDerivedColumns: a zero weight sum is an error.
\* The retail engine raises before RevenueWeight exists; the composite engines
\* raise after CompositeWeight was assigned its unnormalised values.
addDerivedColumns ==
    /\ wmPc = "schemaOk"
    /\ wmEngine \in DerivingEngines
    /\ LET rows == wmDataFrame.rows
           raw == RawWeights(wmEngine, rows)
           weightSum == RSum(raw)
       IN  IF weightSum = Zero
           THEN /\ wmDataFrame' =
                      [wmDataFrame EXCEPT
                          !.derived = DerivedColumns(wmEngine, rows),
                          !.Weight = IF wmEngine = "RetailWeightedMeanEngine"
                                     THEN <<>> ELSE raw]
                /\ WmRaise("WeightedMeanComputationError")
           ELSE /\ wmDataFrame' =
                      [wmDataFrame EXCEPT
                          !.derived = DerivedColumns(wmEngine, rows),
                          !.Weight = [i \in DOMAIN raw |-> RDiv(raw[i], weightSum)]]
                /\ wmPc' = "derived"
                /\ UNCHANGED wmError
    /\ UNCHANGED <<wmEngine, wmSource, wmSimpleMean, wmResult, wmSaved>>
    /\ UNCHANGED outsideWeighted

\* computeSimpleMean: self.dataFrame[features].mean()
computeSimpleMean ==
    /\ \/ wmPc = "schemaOk" /\ wmEngine = "HealthCareWMEngine"
       \/ wmPc = "derived"
    /\ wmSimpleMean' =
          [f \in numericFeatures(wmEngine) |-> SeriesMean(Column(wmDataFrame.rows, f))]
    /\ wmPc' = "simple"
    /\ UNCHANGED <<wmEngine, wmSource, wmDataFrame, wmResult, wmSaved, wmError>>
    /\ UNCHANGED outsideWeighted

\* the weighted sum divided by the number of records, not by the weight sum
DirectMeanByCount(rows) ==
    LET inWeights == Column(rows, "RiskWeight")
    IN  [f \in numericFeatures("HealthCareWMEngine") |->
            NumpyDivide(RSum(SeriesMul(Column(rows, f), inWeights)),
                        Int2Rat(Len(rows)))]

\* HealthCareWMEngine.computeWeightedMean:
\*   (self.dataFrame[outFeature] * inWeights).sum() / inWeights.sum()
DirectWeightedMean(rows) ==
    LET inWeights == Column(rows, "RiskWeight")
    IN  [f \in numericFeatures("HealthCareWMEngine") |->
            NumpyDivide(RSum(SeriesMul(Column(rows, f), inWeights)), RSum(inWeights))]

\* the weighted sum averaged over the records, as a simple mean would be
AveragedWeightedSum(engine, df) ==
    [f \in numericFeatures(engine) |->
        SeriesMean(SeriesMul(Column(df.rows, f), df.Weight))]

\* computeWeightedMean / computeCompositeWeightedMean of the deriving engines:
\*   (self.dataFrame[feature] * weights).sum()
NormalizedWeightedMean(engine, df) ==
    [f \in numericFeatures(engine) |-> RSum(SeriesMul(Column(df.rows, f), df.Weight))]

computeWeightedMean ==
    /\ wmPc = "simple"
    /\ wmResult' = IF wmEngine = "HealthCareWMEngine"
                   THEN DirectWeightedMean(wmDataFrame.rows)
                   ELSE NormalizedWeightedMean(wmEngine, wmDataFrame)
    /\ wmPc' = "computed"
    /\ UNCHANGED <<wmEngine, wmSource, wmDataFrame, wmSimpleMean, wmSaved, wmError>>
    /\ UNCHANGED outsideWeighted

\* saveEnhancedDataset: only the deriving engines write the table back
saveEnhancedDataset ==
    /\ wmPc = "computed"
    /\ wmEngine \in DerivingEngines
    /\ wmSaved' = wmDataFrame
    /\ wmPc' = "done"
    /\ UNCHANGED <<wmEngine, wmSource, wmDataFrame, wmSimpleMean, wmResult, wmError>>
    /\ UNCHANGED outsideWeighted

NextWeighted ==
    \/ wmLoadData
    \/ wmValidateSchema
    \/ addDerivedColumns
    \/ computeSimpleMean
    \/ computeWeightedMean
    \/ saveEnhancedDataset

SpecWeighted == InitWeighted /\ [][NextWeighted]_vars

\* C3: a weighted mean is never computed from weights whose sum is zero: every
\* engine (direct weight, revenue weight, composite weight) ends with an error
\* instead of returning a value.
C3_NoMeanFromZeroWeightSum ==
    wmResult # None => RSum(RawWeights(wmEngine, wmDataFrame.rows)) # Zero

CompositeWMEngines == {"BankingCompositeWMEngine", "HealthcareCompositeWMEngine"}

IsConstantColumn(column) == \A i, j \in DOMAIN column : column[i] = column[j]

\* C11: once addDerivedColumns has renormalized the composite weights to sum
\* to 1, the composite weighted mean of a target field that holds the same
\* constant c in every record is c.
C11_ConstantFieldMean ==
    (wmEngine \in CompositeWMEngines /\ wmResult # None) =>
        \A f \in numericFeatures(wmEngine) :
            LET column == Column(wmDataFrame.rows, f)
            IN  IsConstantColumn(column) => wmResult[f] = column[1]

\* two records with the same target value and different composite weights
C11_Witness ==
    /\ wmEngine \in CompositeWMEngines
    /\ wmResult # None
    /\ Len(wmDataFrame.rows) = 2
    /\ \A f \in numericFeatures(wmEngine) : IsConstantColumn(Column(wmDataFrame.rows, f))
    /\ wmDataFrame.Weight[1] # wmDataFrame.Weight[2]

\* C12: after addDerivedColumns / addCompositeWeights has succeeded on a
\* dataset whose input columns are all non-negative, no record's composite
\* weight is negative.
C12_WeightsNonNegative ==
    (wmEngine \in CompositeWMEngines /\ wmPc \in {"derived", "simple", "computed", "done"}) =>
        \A i \in DOMAIN wmDataFrame.Weight : RLe(Zero, wmDataFrame.Weight[i])

\* the two forms of the weighted mean of a series under raw weights
RawWeightForm(values, weights) ==
    RDiv(RSum(SeriesMul(values, weights)), RSum(weights))

PreNormalizedForm(values, weights) ==
    RSum(SeriesMul(values, [i \in DOMAIN weights |-> RDiv(weights[i], RSum(weights))]))

\* C21: the two weighted-mean forms agree on the same values and the same raw
\* weights of non-zero sum: what HealthCareWMEngine.computeWeightedMean returns
\* (sum(value * weight) / sum(weight)) is what the pre-normalized form gives,
\* and what RetailWeightedMeanEngine returns (weights divided by their total
\* first) is what the raw-weight form gives.
C21_WeightedMeanFormsAgree ==
    /\ (/\ wmEngine = "HealthCareWMEngine"
        /\ wmResult # None
        /\ RSum(Column(wmDataFrame.rows, "RiskWeight")) # Zero) =>
            \A f \in numericFeatures(wmEngine) :
                wmResult[f] = PreNormalizedForm(Column(wmDataFrame.rows, f),
                                                Column(wmDataFrame.rows, "RiskWeight"))
    /\ (wmEngine = "RetailWeightedMeanEngine" /\ wmResult # None) =>
            \A f \in numericFeatures(wmEngine) :
                wmResult[f] = RawWeightForm(Column(wmDataFrame.rows, f),
                                            wmDataFrame.derived.Revenue)

\* values 10 and 20 under raw weights 1 and 3 gave 17.5
C21_Witness ==
    /\ wmEngine = "HealthCareWMEngine"
    /\ wmResult # None
    /\ Column(wmDataFrame.rows, "HeartRate") = <<Int2Rat(10), Int2Rat(20)>>
    /\ Column(wmDataFrame.rows, "RiskWeight") = <<One, Int2Rat(3)>>
    /\ wmResult["HeartRate"] = Rat(35, 2)

-----------------------------------------------------------------------------
(* ProbabilityEngine of 002_DiseasePrediction / 003_InsuranceAnalysis *)

PeColumns == {"Disease", "SmokerStatus"}
PeValues == {"Yes", "No"}

\* a caller may also name a column or a value the dataset does not have
PeAskedColumns == PeColumns \cup {"BMI_Category"}
PeAskedValues == PeValues \cup {"Obese"}

PeSources ==
    [exists : {FALSE}, rows : {<<>>}] \cup
    [exists : {TRUE}, rows : {<<>>} \cup SeqsUpTo([PeColumns -> PeValues], MaxPeRows)]

PeCalls ==
    [inTargetColumn : PeAskedColumns, inTargetValue : PeAskedValues,
     inGivenColumn : PeAskedColumns, inGivenValue : PeAskedValues]

\* ProbabilityEngine(inFilePath): self.dataFrame = None
InitProbability ==
    /\ peSource \in PeSources
    /\ peDataFrame = None
    /\ peCall = None
    /\ peReturn = None
    /\ peError = "None"
    /\ IdleOutsideProbability

\* loadData reads into a local df and assigns self.dataFrame only after the
\* emptiness test; a missing file and an empty sheet both end as DataLoadError
peLoadData ==
    /\ IF peSource.exists /\ peSource.rows # <<>>
       THEN /\ peDataFrame' = [columns |-> PeColumns, rows |-> peSource.rows]
            /\ peError' = "None"
       ELSE /\ peError' = "DataLoadError"
            /\ UNCHANGED peDataFrame
    /\ peCall' = None
    /\ peReturn' = None
    /\ UNCHANGED peSource
    /\ UNCHANGED outsideProbability

\* validateFeatures: the exception it raises ("None" when it returns)
validateFeatures(df, inFeatureName) ==
    IF inFeatureName \notin df.columns THEN "InvalidFeatureError" ELSE "None"

\* self.dataFrame[inFeatureName].unique()
UniqueValues(df, inFeatureName) == {df.rows[i][inFeatureName] : i \in DOMAIN df.rows}

\* a validateValue that lets every value through
validateValueSkipped(df, inFeatureName, inFeatureValue) == "None"

\* validateValue looking the value up in every column, not in inFeatureName's
validateValueAnyColumn(df, inFeatureName, inFeatureValue) ==
    IF inFeatureValue \notin UNION {UniqueValues(df, c) : c \in df.columns}
    THEN "InvalidValueError" ELSE "None"

\* validateValue: the exception it raises ("None" when it returns)
validateValue(df, inFeatureName, inFeatureValue) ==
    IF inFeatureValue \notin UniqueValues(df, inFeatureName)
    THEN "InvalidValueError" ELSE "None"

\* the first exception of a sequence of validation calls
FirstError(checks) ==
    IF \A i \in DOMAIN checks : checks[i] = "None" THEN "None"
    ELSE checks[CHOOSE i \in DOMAIN checks :
                    checks[i] # "None" /\ \A j \in 1..(i - 1) : checks[j] = "None"]

\* a row filter that keeps every row of an existing column, whatever its value
RowsOfColumn(df, column, value) ==
    {i \in DOMAIN df.rows : column \in df.columns}

\* len(df[df[column] == value])
GivenRows(df, column, value) ==
    {i \in DOMAIN df.rows : column \in df.columns /\ df.rows[i][column] = value}

\* conditionalProbability: <<exception, returned value>>
ConditionalProbability(df, call) ==
    IF df = None THEN <<"DataLoadError", None>>
    ELSE LET featureError ==
                 FirstError(<<validateFeatures(df, call.inTargetColumn),
                              validateFeatures(df, call.inGivenColumn)>>)
         IN  IF featureError # "None" THEN <<featureError, None>>
             ELSE LET valueError ==
                          FirstError(<<validateValue(df, call.inTargetColumn, call.inTargetValue),
                                       validateValue(df, call.inGivenColumn, call.inGivenValue)>>)
                      given == GivenRows(df, call.inGivenColumn, call.inGivenValue)
                      totalGiven == Cardinality(given)
                      jointCount ==
                          Cardinality(given \cap
                              GivenRows(df, call.inTargetColumn, call.inTargetValue))
                  IN  IF valueError # "None" THEN <<valueError, None>>
                      ELSE IF totalGiven = 0 THEN <<"None", Zero>>
                      ELSE <<"None", Rat(jointCount, totalGiven)>>

conditionalProbability ==
    \E call \in PeCalls :
        LET outcome == ConditionalProbability(peDataFrame, call)
        IN  /\ peCall' = call
            /\ peError' = outcome[1]
            /\ peReturn' = outcome[2]
            /\ UNCHANGED <<peSource, peDataFrame>>
            /\ UNCHANGED outsideProbability

NextProbability ==
    \/ peLoadData
    \/ conditionalProbability

SpecProbability == InitProbability /\ [][NextProbability]_vars

\* the last call ran on a loaded dataset and its given-condition matches no row
PeZeroRowsGiven ==
    /\ peCall # None
    /\ peDataFrame # None
    /\ GivenRows(peDataFrame, peCall.inGivenColumn, peCall.inGivenValue) = {}

\* C4 as stated: conditionalProbability called on a loaded dataset with a
\* given-condition that matches zero rows returns 0.0 and raises no error.
C4_ZeroRowsReturnsZero ==
    PeZeroRowsGiven => (peReturn = Zero /\ peError = "None")

\* C4 as amended: such a call never divides by zero and never returns a value:
\* it is rejected by validation with the invalid-feature or invalid-value error.
C4_ZeroRowsRejected ==
    PeZeroRowsGiven =>
        (peReturn = None /\ peError \in {"InvalidFeatureError", "InvalidValueError"})

\* a call with existing columns and an observed target value whose given value
\* occurs in no row has been rejected
C4_Witness ==
    /\ PeZeroRowsGiven
    /\ peCall.inGivenColumn \in peDataFrame.columns
    /\ peCall.inTargetColumn \in peDataFrame.columns
    /\ validateValue(peDataFrame, peCall.inTargetColumn, peCall.inTargetValue) = "None"
    /\ peCall.inGivenValue \in PeValues
    /\ peError = "InvalidValueError"

\* the last call passed every validation on a loaded dataset and returned
PeReturned == peCall # None /\ peError = "None" /\ peReturn # None

PeGivenCount ==
    Cardinality({i \in DOMAIN peDataFrame.rows :
                    peDataFrame.rows[i][peCall.inGivenColumn] = peCall.inGivenValue})

PeJointCount ==
    Cardinality({i \in DOMAIN peDataFrame.rows :
                    /\ peDataFrame.rows[i][peCall.inGivenColumn] = peCall.inGivenValue
                    /\ peDataFrame.rows[i][peCall.inTargetColumn] = peCall.inTargetValue})

\* C13: for a loaded dataset and column names and values that pass validation,
\* conditionalProbability returns count(given = g and target = v) divided by
\* count(given = g), a number in [0, 1].
C13_ConditionalProbabilityRatio ==
    PeReturned =>
        /\ PeGivenCount > 0
        /\ peReturn[1] * PeGivenCount = PeJointCount * peReturn[2]
        /\ RLe(Zero, peReturn) /\ RLe(peReturn, One)

\* a validated call on two different columns whose answer is strictly
\* between 0 and 1
C13_Witness ==
    /\ PeReturned
    /\ peCall.inTargetColumn # peCall.inGivenColumn
    /\ RLt(Zero, peReturn) /\ RLt(peReturn, One)

\* the last call ran on a loaded dataset
PeCalledOnLoaded == peCall # None /\ peDataFrame # None

PeUnknownColumn ==
    \/ peCall.inTargetColumn \notin peDataFrame.columns
    \/ peCall.inGivenColumn \notin peDataFrame.columns

PeUnknownValue ==
    \/ \A i \in DOMAIN peDataFrame.rows :
            peDataFrame.rows[i][peCall.inTargetColumn] # peCall.inTargetValue
    \/ \A i \in DOMAIN peDataFrame.rows :
            peDataFrame.rows[i][peCall.inGivenColumn] # peCall.inGivenValue

\* C14: conditionalProbability rejects before it counts: the unknown-feature
\* error when the target or the given column is not a column of the dataset,
\* otherwise the unknown-value error when the target or the given value does
\* not occur in its column; a column-name error wins over a value error and a
\* rejected call returns no probability.
C14_RejectsBeforeCounting ==
    PeCalledOnLoaded =>
        IF PeUnknownColumn
        THEN peError = "InvalidFeatureError" /\ peReturn = None
        ELSE IF PeUnknownValue
        THEN peError = "InvalidValueError" /\ peReturn = None
        ELSE peError = "None" /\ peReturn # None

\* a call with an unknown target value and an unknown given column was
\* rejected for the column
C14_Witness ==
    /\ PeCalledOnLoaded
    /\ peCall.inTargetColumn \in peDataFrame.columns
    /\ \A i \in DOMAIN peDataFrame.rows :
            peDataFrame.rows[i][peCall.inTargetColumn] # peCall.inTargetValue
    /\ peCall.inGivenColumn \notin peDataFrame.columns
    /\ peError = "InvalidFeatureError"

-----------------------------------------------------------------------------
(* HealthCareEVCalculator of 002_ExpectedValueHealthCareDomain *)

EvRequiredColumns ==
    {"Case ID", "Case Type", "Severity Level", "Probability", "Resource Cost (USD)",
     "Treatment Time (Minutes)", "ICU Required"}

severityMapping == [Mild |-> 1, Moderate |-> 2, Severe |-> 3, Critical |-> 4]

EvRow(severity, probability, cost) ==
    ("Case ID" :> 1) @@ ("Case Type" :> "Cardiac") @@ ("Severity Level" :> severity) @@
    ("Probability" :> probability) @@ ("Resource Cost (USD)" :> cost) @@
    ("Treatment Time (Minutes)" :> Int2Rat(30)) @@ ("ICU Required" :> "Yes")

EvRows ==
    {EvRow(s, p, c) : s \in {"Mild", "Critical"}, p \in {Rat(1, 4), Rat(1, 2)},
                      c \in {Int2Rat(100), Int2Rat(200)}}

\* the column sets a sheet may have: complete, without a column the expected
\* value does not read, without one it reads
EvColumnSets ==
    {EvRequiredColumns, EvRequiredColumns \ {"Case ID"}, EvRequiredColumns \ {"Probability"}}

Restrict(row, columns) == [c \in columns |-> row[c]]

EvSources ==
    {[exists |-> FALSE, xlsx |-> TRUE, columns |-> {}, rows |-> <<>>]} \cup
    {[exists |-> TRUE, xlsx |-> x, columns |-> cs,
      rows |-> [i \in DOMAIN rows |-> Restrict(rows[i], cs)]] :
        x \in BOOLEAN, cs \in EvColumnSets,
        rows \in {<<>>} \cup SeqsUpTo(EvRows, MaxEvRows)}

\* HealthCareEVCalculator(inFilePath): self.data = None
InitExpected ==
    /\ evSource \in EvSources
    /\ evData = None
    /\ evOp = "none"
    /\ evReturn = None
    /\ evError = "None"
    /\ IdleOutsideExpected

\* validateDataFile: the exception it raises ("None" when it returns)
validateDataFile(source) ==
    IF ~source.exists THEN "DataFileNotFoundError"
    ELSE IF ~source.xlsx THEN "InvalidFileFormatError"
    ELSE "None"

\* validateRequiredColumns: the exception it raises ("None" when it returns)
validateRequiredColumns(data) ==
    IF EvRequiredColumns \ data.columns # {} THEN "MissingColumnError" ELSE "None"

\* loadData: self.data is assigned as soon as the sheet is read; the emptiness
\* test and the column test come after the assignment
evLoadData ==
    /\ evOp' = "loadData"
    /\ evReturn' = None
    /\ IF validateDataFile(evSource) # "None"
       THEN /\ evError' = validateDataFile(evSource)
            /\ UNCHANGED evData
       ELSE /\ evData' = [columns |-> evSource.columns, rows |-> evSource.rows]
            /\ evError' = IF evSource.rows = <<>> THEN "EmptyDataSetError"
                          ELSE validateRequiredColumns(evData')
    /\ UNCHANGED evSource
    /\ UNCHANGED outsideExpected

\* a column assignment that also rewrites the revenue column it reads
AddColumnAndScale(data, name, values) ==
    [columns |-> data.columns \cup {name},
     rows |-> [i \in DOMAIN data.rows |->
                  (name :> values[i]) @@ ("Sales Revenue (USD)" :> values[i]) @@
                  data.rows[i]]]

\* self.data[name] = values
AddColumn(data, name, values) ==
    [columns |-> data.columns \cup {name},
     rows |-> [i \in DOMAIN data.rows |-> (name :> values[i]) @@ data.rows[i]]]

\* calculatedExpectedValue: <<exception, returned value, self.data afterwards>>.
\* Reading a column the frame does not have raises KeyError at that line; the
\* columns assigned by the lines before it stay in self.data.
CalculatedExpectedValue(data) ==
    IF data = None THEN <<"DataNotLoadedError", None, data>>
    ELSE IF "Severity Level" \notin data.columns THEN <<"KeyError", None, data>>
    ELSE
      LET d1 == AddColumn(data, "Severity Weight",
                    [i \in DOMAIN data.rows |->
                        Int2Rat(severityMapping[data.rows[i]["Severity Level"]])])
      IN  IF ~({"Resource Cost (USD)", "Probability"} \subseteq d1.columns)
          THEN <<"KeyError", None, d1>>
          ELSE
            LET d2 == AddColumn(d1, "Expected Resource Cost",
                          [i \in DOMAIN d1.rows |->
                              RMul(d1.rows[i]["Resource Cost (USD)"],
                                   d1.rows[i]["Probability"])])
            IN  IF "Treatment Time (Minutes)" \notin d2.columns
                THEN <<"KeyError", None, d2>>
                ELSE
                  LET d3 == AddColumn(d2, "Expected Treatment Time",
                                [i \in DOMAIN d2.rows |->
                                    RMul(d2.rows[i]["Treatment Time (Minutes)"],
                                         d2.rows[i]["Probability"])])
                      d4 == AddColumn(d3, "Weighted Risk Contribution",
                                [i \in DOMAIN d3.rows |->
                                    RMul(d3.rows[i]["Probability"],
                                         d3.rows[i]["Severity Weight"])])
                      totalExpectedValue ==
                          RSum([i \in DOMAIN d4.rows |-> d4.rows[i]["Expected Resource Cost"]])
                  IN  <<"None", totalExpectedValue, d4>>

calculatedExpectedValue ==
    LET outcome == CalculatedExpectedValue(evData)
    IN  /\ evOp' = "calculatedExpectedValue"
        /\ evError' = outcome[1]
        /\ evReturn' = outcome[2]
        /\ evData' = outcome[3]
        /\ UNCHANGED evSource
        /\ UNCHANGED outsideExpected

NextExpected ==
    \/ evLoadData
    \/ calculatedExpectedValue

SpecExpected == InitExpected /\ [][NextExpected]_vars

\* loadData cannot succeed on this source
EvSourceRejected ==
    \/ validateDataFile(evSource) # "None"
    \/ evSource.rows = <<>>
    \/ EvRequiredColumns \ evSource.columns # {}

\* C5: loading is atomic: after a loadData that failed the engine's data
\* reference is still unset, and a compute call on an engine whose loads all
\* failed reports data-not-loaded instead of working on the rejected data.
C5_FailedLoadLeavesDataUnset ==
    /\ (evOp = "loadData" /\ evError # "None") => evData = None
    /\ (evOp = "calculatedExpectedValue" /\ EvSourceRejected) =>
            (evError = "DataNotLoadedError" /\ evReturn = None)

-----------------------------------------------------------------------------
(* Record-list datasets: ManufacturingDataSet, NetworkDataSet, HealthDataSet. *)
(* The three classes differ in field names only; the names here are those of *)
(* ManufacturingDataSet.                                                      *)

REQUIRED_COLUMNS ==
    {"product_id", "is_defective", "weight_g", "length_mm", "batch_id", "machine_id",
     "timestamp"}

\* a spreadsheet cell: a number, or a text that is not a number
NumberCell(v) == [text |-> FALSE, value |-> v]
TextCell == [text |-> TRUE, value |-> Zero]

DsRows ==
    [is_defective : {NumberCell(Zero), NumberCell(One), TextCell},
     weight_g : {NumberCell(Int2Rat(5)), TextCell}]

DsSources ==
    {[exists |-> FALSE, columns |-> {}, rows |-> <<>>]} \cup
    [exists : {TRUE},
     columns : {REQUIRED_COLUMNS, REQUIRED_COLUMNS \ {"batch_id"}},
     rows : {<<>>} \cup SeqsUpTo(DsRows, MaxDsRows)]

\* ManufacturingDataSet(inFilePath): self.records = []
InitDataSet ==
    /\ dsSource \in DsSources
    /\ dsRecords = <<>>
    /\ dsLoads = 0
    /\ dsOp = "none"
    /\ dsReturn = None
    /\ dsError = "None"
    /\ IdleOutsideDataSet

\* bool(cell): a number is true unless it is 0, a non-empty text is true
ToBool(cell) == cell.text \/ cell.value # Zero

\* float(cell) raises ValueError on a text that is not a number
FloatFails(cell) == cell.text

ProductRecord(row) ==
    [is_defective |-> ToBool(row.is_defective), weight_g |-> row.weight_g.value]

\* the rows the loop of load() converts before a conversion raises
ConvertiblePrefix(rows) ==
    LET bad == {i \in DOMAIN rows : FloatFails(rows[i].weight_g)}
        stop == IF bad = {} THEN Len(rows) + 1
                ELSE CHOOSE i \in bad : \A j \in bad : i <= j
    IN  SubSeq(rows, 1, stop - 1)

\* load(): every converted row is appended to self.records at once, so the rows
\* before a failing one stay; nothing clears self.records between calls
dsLoad ==
    /\ dsLoads < MaxLoads
    /\ dsLoads' = dsLoads + 1
    /\ dsOp' = "load"
    /\ dsReturn' = None
    /\ IF ~dsSource.exists \/ ~(REQUIRED_COLUMNS \subseteq dsSource.columns)
       THEN /\ dsError' = "DataLoadingError"
            /\ UNCHANGED dsRecords
       ELSE LET done == ConvertiblePrefix(dsSource.rows)
            IN  /\ dsRecords' = dsRecords \o [i \in DOMAIN done |-> ProductRecord(done[i])]
                /\ dsError' = IF Len(done) < Len(dsSource.rows)
                              THEN "ValueError" ELSE "None"
    /\ UNCHANGED dsSource
    /\ UNCHANGED outsideDataSet

getDefectProbability ==
    /\ dsOp' = "getDefectProbability"
    /\ IF dsRecords = <<>>
       THEN dsError' = "DataLoadingError" /\ dsReturn' = None
       ELSE /\ dsError' = "None"
            /\ dsReturn' =
                  Rat(Cardinality({i \in DOMAIN dsRecords : dsRecords[i].is_defective}),
                      Len(dsRecords))
    /\ UNCHANGED <<dsSource, dsRecords, dsLoads>>
    /\ UNCHANGED outsideDataSet

NextDataSet ==
    \/ dsLoad
    \/ getDefectProbability

SpecDataSet == InitDataSet /\ [][NextDataSet]_vars

\* C6: a load() that fails leaves no partial result (the source does not
\* change, so a failed load means no load of it can have succeeded and the
\* records list must be empty), and after any sequence of load() calls the
\* records list never holds more rows than the source has.
C6_NoPartialLoad ==
    /\ (dsOp = "load" /\ dsError # "None") => dsRecords = <<>>
    /\ Len(dsRecords) <= Len(dsSource.rows)

-----------------------------------------------------------------------------
(* Monte Carlo simulation: ProbabilityTrial / TrialRunner of the trial       *)
(* scripts and ProbabilityExperiment of the experiment scripts               *)

McKinds == {"TrialRunner", "ProbabilityExperiment"}

\* probabilities a caller may hand to ProbabilityTrial
McProbabilities == {Rat(-1, 2), Zero, Rat(1, 2), One, Rat(3, 2)}

\* trial counts a caller may hand to TrialRunner / ProbabilityExperiment
McCounts == (-1)..MaxTrials

\* values of random.random(), which lie in [0, 1)
McDraws == {Zero, Rat(1, 2), Rat(99, 100)}

\* label columns of a sheet with at least one row; the loader checks that the
\* column exists, not what it holds
McLabelValues == {Zero, One, Int2Rat(2)}
McLabelColumns == SeqsUpTo(McLabelValues, MaxLabels)

InitMonteCarlo ==
    /\ mcKind \in McKinds
    /\ mcLabels \in IF mcKind = "ProbabilityExperiment" THEN McLabelColumns ELSE {<<>>}
    /\ mcProbability = None
    /\ mcTrials = 0
    /\ mcResults = <<>>
    /\ mcExecutions = 0
    /\ mcDrawn = 0
    /\ mcOp = "none"
    /\ mcArg = None
    /\ mcReturn = None
    /\ mcError = "None"
    /\ IdleOutsideMonteCarlo

\* ProbabilityTrial(inProbability)
NewProbabilityTrial ==
    /\ mcKind = "TrialRunner"
    /\ mcTrials = 0
    /\ \E inProbability \in McProbabilities :
        /\ mcOp' = "ProbabilityTrial"
        /\ mcArg' = inProbability
        /\ IF ~(RLe(Zero, inProbability) /\ RLe(inProbability, One))
           THEN mcError' = "InvalidTrialError" /\ UNCHANGED mcProbability
           ELSE mcError' = "None" /\ mcProbability' = inProbability
    /\ mcReturn' = None
    /\ UNCHANGED <<mcKind, mcLabels, mcTrials, mcResults, mcExecutions, mcDrawn>>
    /\ UNCHANGED outsideMonteCarlo

\* TrialRunner(inNumTrials, inTrial)
NewTrialRunner ==
    /\ mcKind = "TrialRunner"
    /\ mcProbability # None
    /\ mcTrials = 0
    /\ \E inNumTrials \in McCounts :
        /\ mcOp' = "TrialRunner"
        /\ mcArg' = Int2Rat(inNumTrials)
        /\ IF inNumTrials <= 0
           THEN mcError' = "InvalidTrialError" /\ UNCHANGED mcTrials
           ELSE mcError' = "None" /\ mcTrials' = inNumTrials
    /\ mcResults' = <<>>
    /\ mcReturn' = None
    /\ UNCHANGED <<mcKind, mcLabels, mcProbability, mcExecutions, mcDrawn>>
    /\ UNCHANGED outsideMonteCarlo

\* run() with "<=" in place of "<"
TrialSucceedsInclusive(draw, probability) == RLe(draw, probability)

\* ProbabilityTrial.run and the test inside ProbabilityExperiment.run:
\*   random.random() < probability
TrialSucceeds(draw, probability) == RLt(draw, probability)

\* an executeTrials whose loop runs 2 * inNumTrials times
executeTrialsTwoRounds ==
    /\ mcKind = "TrialRunner"
    /\ mcTrials > 0
    /\ mcExecutions < MaxExecutions
    /\ \E draws \in [1..(2 * mcTrials) -> McDraws] :
        mcResults' = mcResults \o
            [i \in 1..(2 * mcTrials) |-> TrialSucceeds(draws[i], mcProbability)]
    /\ mcExecutions' = mcExecutions + 1
    /\ mcDrawn' = mcDrawn + 2 * mcTrials
    /\ mcOp' = "executeTrials"
    /\ mcArg' = None
    /\ mcReturn' = None
    /\ mcError' = "None"
    /\ UNCHANGED <<mcKind, mcLabels, mcProbability, mcTrials>>
    /\ UNCHANGED outsideMonteCarlo

\* executeTrials appends inNumTrials outcomes to trialResults
executeTrials ==
    /\ mcKind = "TrialRunner"
    /\ mcTrials > 0
    /\ mcExecutions < MaxExecutions
    /\ \E draws \in [1..mcTrials -> McDraws] :
        mcResults' = mcResults \o
            [i \in 1..mcTrials |-> TrialSucceeds(draws[i], mcProbability)]
    /\ mcExecutions' = mcExecutions + 1
    /\ mcDrawn' = mcDrawn + mcTrials
    /\ mcOp' = "executeTrials"
    /\ mcArg' = None
    /\ mcReturn' = None
    /\ mcError' = "None"
    /\ UNCHANGED <<mcKind, mcLabels, mcProbability, mcTrials>>
    /\ UNCHANGED outsideMonteCarlo

\* sum(self.trialResults)
CountTrue(results) == Cardinality({i \in DOMAIN results : results[i]})

generateSummary ==
    /\ mcKind = "TrialRunner"
    /\ mcTrials > 0
    /\ LET defectiveCounts == CountTrue(mcResults)
       IN  mcReturn' =
              [totalTrials |-> mcTrials,
               defectiveCount |-> defectiveCounts,
               nonDefectiveCounts |-> mcTrials - defectiveCounts,
               estimatedDefectiveProbability |-> Rat(defectiveCounts, mcTrials)]
    /\ mcOp' = "generateSummary"
    /\ mcArg' = None
    /\ mcError' = "None"
    /\ UNCHANGED <<mcKind, mcLabels, mcProbability, mcTrials, mcResults, mcExecutions,
                   mcDrawn>>
    /\ UNCHANGED outsideMonteCarlo

\* ProbabilityExperiment(dataFrame, inTrials): passProbability = None
NewProbabilityExperiment ==
    /\ mcKind = "ProbabilityExperiment"
    /\ mcTrials = 0
    /\ \E inTrials \in McCounts :
        /\ mcOp' = "ProbabilityExperiment"
        /\ mcArg' = Int2Rat(inTrials)
        /\ IF inTrials <= 0
           THEN mcError' = "ExperimentconfigurationError" /\ UNCHANGED mcTrials
           ELSE mcError' = "None" /\ mcTrials' = inTrials
    /\ mcReturn' = None
    /\ UNCHANGED <<mcKind, mcLabels, mcProbability, mcResults, mcExecutions, mcDrawn>>
    /\ UNCHANGED outsideMonteCarlo

\* totalPasses / totalRecords, on a frame with at least one row
EmpiricalProbability(labels) == RDiv(RSum(labels), Int2Rat(Len(labels)))

computeEmpiricalProbability ==
    /\ mcKind = "ProbabilityExperiment"
    /\ mcTrials > 0
    /\ mcProbability' = EmpiricalProbability(mcLabels)
    /\ mcOp' = "computeEmpiricalProbability"
    /\ mcArg' = None
    /\ mcReturn' = None
    /\ mcError' = "None"
    /\ UNCHANGED <<mcKind, mcLabels, mcTrials, mcResults, mcExecutions, mcDrawn>>
    /\ UNCHANGED outsideMonteCarlo

\* run(): computes passProbability if it is still None, then counts the draws
\* below it; the probability is used as computed, without a range test
run ==
    /\ mcKind = "ProbabilityExperiment"
    /\ mcTrials > 0
    /\ mcExecutions < MaxExecutions
    /\ LET passProbability == IF mcProbability = None
                              THEN EmpiricalProbability(mcLabels) ELSE mcProbability
       IN  /\ mcProbability' = passProbability
           /\ \E draws \in [1..mcTrials -> McDraws] :
                LET successCount ==
                        Cardinality({i \in 1..mcTrials :
                                        TrialSucceeds(draws[i], passProbability)})
                IN  mcReturn' = Rat(successCount, mcTrials)
    /\ mcExecutions' = mcExecutions + 1
    /\ mcDrawn' = mcDrawn + mcTrials
    /\ mcOp' = "run"
    /\ mcArg' = None
    /\ mcError' = "None"
    /\ UNCHANGED <<mcKind, mcLabels, mcTrials, mcResults>>
    /\ UNCHANGED outsideMonteCarlo

NextMonteCarlo ==
    \/ NewProbabilityTrial
    \/ NewTrialRunner
    \/ executeTrials
    \/ generateSummary
    \/ NewProbabilityExperiment
    \/ computeEmpiricalProbability
    \/ run

SpecMonteCarlo == InitMonteCarlo /\ [][NextMonteCarlo]_vars

\* C8: every simulation entry point rejects invalid parameters before any
\* sample is drawn: a probability outside [0, 1] and a trial count <= 0 raise
\* an error, for ProbabilityTrial / TrialRunner and for ProbabilityExperiment,
\* so samples are only ever drawn with a probability in [0, 1] and a count > 0.
C8_InvalidParametersRejected ==
    /\ mcDrawn > 0 =>
          /\ mcTrials > 0
          /\ mcProbability # None
          /\ RLe(Zero, mcProbability) /\ RLe(mcProbability, One)
    /\ (mcOp = "ProbabilityTrial" /\ ~(RLe(Zero, mcArg) /\ RLe(mcArg, One))) =>
          mcError = "InvalidTrialError"
    /\ (mcOp \in {"TrialRunner", "ProbabilityExperiment"} /\ RLe(mcArg, Zero)) =>
          mcError \in {"InvalidTrialError", "ExperimentconfigurationError"}

\* the value a finished simulation reported as its estimated probability:
\* the summary of a runner that executed its trials once, or what run() returned
McEstimate ==
    IF mcOp = "run" THEN mcReturn ELSE mcReturn.estimatedDefectiveProbability

McReported ==
    \/ mcOp = "run"
    \/ mcOp = "generateSummary" /\ mcExecutions = 1

\* C10: for every trial count n > 0, a simulation with success probability 0
\* reports an estimated probability of exactly 0 and one with probability 1
\* reports exactly 1, whatever numbers in [0, 1) the random source hands out.
C10_DegenerateProbabilities ==
    McReported =>
        /\ mcProbability = Zero => McEstimate = Zero
        /\ mcProbability = One => McEstimate = One

\* a runner of MaxTrials trials with probability 1 has executed them once and
\* reported its summary
C10_Witness ==
    /\ McReported
    /\ mcKind = "TrialRunner"
    /\ mcProbability = One
    /\ mcTrials = MaxTrials
    /\ McEstimate = One

\* generateSummary has just returned on a runner whose executeTrials ran once
McSummaryAfterOneRun == mcOp = "generateSummary" /\ mcExecutions = 1

\* C17: after executeTrials has run once on a TrialRunner constructed with n
\* trials, generateSummary returns total = n, a success count and a failure
\* count that are both in 0..n and sum to n, and an estimated probability of
\* successCount / n.
C17_SummaryAfterOneRun ==
    McSummaryAfterOneRun =>
        LET n == mcTrials
            successCount == mcReturn.defectiveCount
            failureCount == mcReturn.nonDefectiveCounts
            estimate == mcReturn.estimatedDefectiveProbability
        IN  /\ mcReturn.totalTrials = n
            /\ successCount \in 0..n
            /\ failureCount \in 0..n
            /\ successCount + failureCount = n
            /\ estimate[1] * n = successCount * estimate[2]

\* a summary of MaxTrials trials of which some succeeded and some failed
C17_Witness ==
    /\ McSummaryAfterOneRun
    /\ mcTrials = MaxTrials
    /\ mcReturn.defectiveCount > 0
    /\ mcReturn.nonDefectiveCounts > 0


\* C26: for any sequence of executeTrials and generateSummary calls on a
\* TrialRunner (generateSummary before any executeTrials and executeTrials
\* called more than once included), every summary has a success count of at
\* most totalTrials, a failure count of at least 0 and an estimated
\* probability in [0, 1].
C26_SummaryWithinRange ==
    mcOp = "generateSummary" =>
        /\ mcReturn.defectiveCount <= mcReturn.totalTrials
        /\ mcReturn.nonDefectiveCounts >= 0
        /\ RLe(Zero, mcReturn.estimatedDefectiveProbability)
        /\ RLe(mcReturn.estimatedDefectiveProbability, One)

-----------------------------------------------------------------------------
(* ProbabilityFrequencyDistributionEngine.computeDistribution of              *)
(* 004_BankTransactionFraudPFD, 002_CustomerSpendingPatterns and              *)
(* 003_ECommerceDeliveryDelayPFD                                              *)

FdEngines == {"BankFraud", "CustomerSpending", "EcommerceDelay"}

\* the series may be empty: only the fraud filter refuses an empty selection
FdSeriesSet == {<<>>} \cup SeqsUpTo({Int2Rat(v) : v \in (-1)..MaxAmount}, MaxFdRows)

\* a series with one far outlier, binned into five classes
OutlierExample ==
    [series |-> <<Int2Rat(1), Int2Rat(2), Int2Rat(3), Int2Rat(4), Int2Rat(5), Int2Rat(100)>>,
     bins |-> 5]

InitDistribution ==
    /\ fdEngine \in FdEngines
    /\ \/ fdSeries \in FdSeriesSet /\ fdBins \in 0..MaxBins
       \/ fdSeries = OutlierExample.series /\ fdBins = OutlierExample.bins
    /\ fdTable = None
    /\ fdError = "None"
    /\ fdPc = "start"
    /\ IdleOutsideDistribution

\* floor of a rational
RFloor(a) == a[1] \div a[2]

\* int(x): truncation towards zero
ToInt(a) == IF a[1] >= 0 THEN a[1] \div a[2] ELSE -((-a[1]) \div a[2])

\* round(x, 2): to the nearest hundredth, a tie to the even one
Round2(a) ==
    LET y == RMul(a, Int2Rat(100))
        f == RFloor(y)
        rest == RSub(y, Int2Rat(f))
        n == IF RLt(rest, Rat(1, 2)) THEN f
             ELSE IF RLt(Rat(1, 2), rest) THEN f + 1
             ELSE IF f % 2 = 0 THEN f ELSE f + 1
    IN  Rat(n, 100)

\* the range np.histogram spreads the bins over: (min, max) of the data,
\* (0, 1) for no data, widened by 0.5 on both sides when min = max
HistogramRange(series) ==
    LET lo == IF series = <<>> THEN Zero ELSE RMinOf(series)
        hi == IF series = <<>> THEN One ELSE RMaxOf(series)
    IN  IF lo = hi THEN <<RSub(lo, Rat(1, 2)), RAdd(hi, Rat(1, 2))>> ELSE <<lo, hi>>

\* np.linspace(first, last, bins + 1), indexed from 1
BinEdges(series, bins) ==
    LET range == HistogramRange(series)
        width == RDiv(RSub(range[2], range[1]), Int2Rat(bins))
    IN  [e \in 1..(bins + 1) |-> RAdd(range[1], RMul(Int2Rat(e - 1), width))]

\* the bin index without the rule for the right edge of the last bin
BinOfHalfOpen(x, series, bins) ==
    LET range == HistogramRange(series)
    IN  1 + RFloor(RDiv(RMul(RSub(x, range[1]), Int2Rat(bins)),
                        RSub(range[2], range[1])))

\* the bin (1..bins) np.histogram counts x in: bins are half-open, the last
\* one also holds the right edge
BinOf(x, series, bins) ==
    LET range == HistogramRange(series)
    IN  IF x = range[2] THEN bins
        ELSE 1 + RFloor(RDiv(RMul(RSub(x, range[1]), Int2Rat(bins)),
                             RSub(range[2], range[1])))

Frequency(series, bins) ==
    [b \in 1..bins |-> Cardinality({i \in DOMAIN series : BinOf(series[i], series, bins) = b})]

IntSum(counts) ==
    LET Upto[n \in 0..Len(counts)] == IF n = 0 THEN 0 ELSE Upto[n - 1] + counts[n]
    IN  Upto[Len(counts)]

\* the printed bounds of the class intervals: int() in the fraud and delivery
\* scripts, round(.., 2) in the spending script
ClassIntervals(engine, binEdges) ==
    [b \in 1..(Len(binEdges) - 1) |->
        IF engine = "CustomerSpending"
        THEN <<Round2(binEdges[b]), Round2(binEdges[b + 1])>>
        ELSE <<Int2Rat(ToInt(binEdges[b])), Int2Rat(ToInt(binEdges[b + 1]))>>]

\* Frequency / Frequency.sum() with every count divided by the largest count
ProbabilityByLargestCount(frequency) ==
    LET largest == CHOOSE m \in {frequency[b] : b \in DOMAIN frequency} :
                        \A b \in DOMAIN frequency : frequency[b] <= m
    IN  [b \in DOMAIN frequency |-> NumpyDivide(Int2Rat(frequency[b]), Int2Rat(largest))]

\* distributionDF["Frequency"] / distributionDF["Frequency"].sum()
ProbabilityColumn(frequency) ==
    [b \in DOMAIN frequency |->
        NumpyDivide(Int2Rat(frequency[b]), Int2Rat(IntSum(frequency)))]

\* Series.cumsum(); a NaN entry stays NaN
CumSum(column) ==
    [b \in DOMAIN column |->
        IF \E c \in 1..b : ~IsFinite(column[c]) THEN NaN
        ELSE RSum(SubSeq(column, 1, b))]

\* computeDistribution: np.histogram refuses a bin count below 1
computeDistribution ==
    /\ fdPc = "start"
    /\ fdPc' = "done"
    /\ IF fdBins < 1
       THEN /\ fdError' = "ValueError"
            /\ UNCHANGED fdTable
       ELSE LET frequency == Frequency(fdSeries, fdBins)
                probability == ProbabilityColumn(frequency)
            IN  /\ fdTable' =
                      [Class_Interval |-> ClassIntervals(fdEngine, BinEdges(fdSeries, fdBins)),
                       Frequency |-> frequency,
                       Probability |-> probability,
                       Cumulative_Probability |-> CumSum(probability)]
                /\ UNCHANGED fdError
    /\ UNCHANGED <<fdEngine, fdSeries, fdBins>>
    /\ UNCHANGED outsideDistribution

NextDistribution == computeDistribution

SpecDistribution == InitDistribution /\ [][NextDistribution]_vars

\* C9: for every non-empty input series the table computeDistribution returns
\* has Probability values that sum to 1 and a Cumulative_Probability column
\* that is non-decreasing in interval order and whose last value is 1.
C9_ProbabilitiesSumToOne ==
    (fdTable # None /\ fdSeries # <<>>) =>
        LET cumulative == fdTable.Cumulative_Probability
        IN  /\ \A b \in DOMAIN cumulative : IsFinite(cumulative[b])
            /\ RSum(fdTable.Probability) = One
            /\ \A b \in 1..(Len(cumulative) - 1) : RLe(cumulative[b], cumulative[b + 1])
            /\ cumulative[Len(cumulative)] = One

\* a table over MaxBins bins in which two bins hold values and one holds none
C9_Witness ==
    /\ fdTable # None
    /\ Len(fdSeries) = MaxFdRows
    /\ fdBins = MaxBins
    /\ Cardinality({b \in 1..fdBins : fdTable.Frequency[b] > 0}) >= 2
    /\ \E b \in 1..fdBins : fdTable.Frequency[b] = 0
    /\ fdTable.Cumulative_Probability[fdBins] = One

\* computeDistribution returned a table for a series that is not empty
FdBinned == fdTable # None /\ fdSeries # <<>>

\* the values of the series that lie in interval b of the k equal-width
\* intervals of [lo, hi]: lo + (b-1)w <= x < lo + b w with w = (hi - lo) / k,
\* the last interval closed at hi (compared after multiplying through by k)
InInterval(x, b, lo, hi, k) ==
    LET scaled == RMul(RSub(x, lo), Int2Rat(k))
        span == RSub(hi, lo)
    IN  /\ RLe(RMul(Int2Rat(b - 1), span), scaled)
        /\ IF b = k THEN RLe(scaled, RMul(Int2Rat(b), span))
           ELSE RLt(scaled, RMul(Int2Rat(b), span))

CountInInterval(b, lo, hi) ==
    Cardinality({i \in DOMAIN fdSeries : InInterval(fdSeries[i], b, lo, hi, fdBins)})

MaxCount ==
    Cardinality({i \in DOMAIN fdSeries : fdSeries[i] = RMaxOf(fdSeries)})

\* C16 as stated: k bins partition [min(series), max(series)] into k
\* equal-width intervals, half-open but for the closed last one; every value
\* is counted in exactly one bin, so the frequencies sum to the length of the
\* series, and the maximum is counted in the last bin.
C16_BinsPartitionMinMax ==
    FdBinned =>
        /\ \A b \in 1..fdBins :
              fdTable.Frequency[b] = CountInInterval(b, RMinOf(fdSeries), RMaxOf(fdSeries))
        /\ IntSum(fdTable.Frequency) = Len(fdSeries)
        /\ fdTable.Frequency[fdBins] >= MaxCount

\* C16 as amended: the partitioned range is [min, max], or [v - 0.5, v + 0.5]
\* when every value of the series equals v; the frequencies sum to the length
\* of the series; the maximum is counted in the last bin when the values are
\* not all equal.
C16_BinsPartitionRange ==
    FdBinned =>
        LET lo == RMinOf(fdSeries)
            hi == RMaxOf(fdSeries)
        IN  /\ \A b \in 1..fdBins :
                  fdTable.Frequency[b] =
                      IF lo = hi
                      THEN CountInInterval(b, RSub(lo, Rat(1, 2)), RAdd(hi, Rat(1, 2)))
                      ELSE CountInInterval(b, lo, hi)
            /\ IntSum(fdTable.Frequency) = Len(fdSeries)
            /\ lo # hi => fdTable.Frequency[fdBins] >= MaxCount

\* five bins over 1, 2, 3, 4, 5, 100: the outlier is alone in the last bin,
\* whose probability is 1/6
C16_Witness ==
    /\ FdBinned
    /\ fdSeries = OutlierExample.series
    /\ fdTable.Frequency = <<5, 0, 0, 0, 1>>
    /\ fdTable.Probability[5] = Rat(1, 6)

-----------------------------------------------------------------------------
(* Compound events: FraudProbabilityAnalyzer of 002_FraudDetectionPrediction
   and DieseaseProbabilityAnalyzer of 001_DieseaseForecast *)

CeKinds == {"Fraud", "Diesease"}

\* FraudTransaction / PatientRecord objects a caller may add
CeRecordsOf(kind) ==
    IF kind = "Fraud"
    THEN [inCustomerID : {1}, inAmount : {3000, 3001},
          inTransactionCountry : {"IN", "US"}, inCustomerCountry : {"IN"},
          inIsFraud : {"Yes", "No"}]
    ELSE [inPatientID : {1}, inAge : {40}, inBMI : {30, 31},
          inSmoker : {"Yes", "No"}, inHasDiesease : {"Yes", "No"}]

\* __init__: self.transactions = [] / self.patients = []
InitCompound ==
    /\ ceKind \in CeKinds
    /\ ceRecords = <<>>
    /\ ceOp = "idle"
    /\ ceReturn = None
    /\ ceError = "None"
    /\ IdleOutsideCompound

\* addTransactions / addPatients
addTransactions ==
    /\ Len(ceRecords) < MaxCeRecords
    /\ \E inTransaction \in CeRecordsOf(ceKind) :
          ceRecords' = Append(ceRecords, inTransaction)
    /\ ceOp' = "addTransactions"
    /\ ceReturn' = None
    /\ ceError' = "None"
    /\ UNCHANGED ceKind
    /\ UNCHANGED outsideCompound

\* df["IsInternational"] / df["IsHighBMI"]
EventA(kind, r) ==
    IF kind = "Fraud" THEN r.inTransactionCountry # r.inCustomerCountry
    ELSE r.inBMI > 30

\* df["IsHighValue"] / df["IsSmoker"]
EventB(kind, r) ==
    IF kind = "Fraud" THEN r.inAmount > 3000
    ELSE r.inSmoker = "Yes"

\* inIsFraud == "Yes" / inHasDiesease == "Yes"
TargetEvent(kind, r) ==
    IF kind = "Fraud" THEN r.inIsFraud = "Yes" ELSE r.inHasDiesease = "Yes"

\* cutting x off after its fourth decimal place
Truncate4(a) == Rat(RFloor(RMul(a, Int2Rat(10000))), 10000)

\* round(x, 4): to the nearest ten-thousandth, a tie to the even one
Round4(a) ==
    LET y == RMul(a, Int2Rat(10000))
        f == RFloor(y)
        rest == RSub(y, Int2Rat(f))
        n == IF RLt(rest, Rat(1, 2)) THEN f
             ELSE IF RLt(Rat(1, 2), rest) THEN f + 1
             ELSE IF f % 2 = 0 THEN f ELSE f + 1
    IN  Rat(n, 10000)

\* the dictionary calculateProbabilities returns for a non-empty list.
\* The disease script compares its boolean columns with the string "True"
\* for P(HighBMI) and P(Smoker), which selects no row.
CalculateProbabilities(kind, records) ==
    LET total == Len(records)
        rowsOfTarget == {i \in DOMAIN records : TargetEvent(kind, records[i])}
        rowsOfA == IF kind = "Fraud"
                   THEN {i \in DOMAIN records : EventA(kind, records[i])}
                   ELSE {}
        rowsOfB == IF kind = "Fraud"
                   THEN {i \in DOMAIN records : EventB(kind, records[i])}
                   ELSE {}
        dfCompound == {i \in DOMAIN records :
                          EventA(kind, records[i]) /\ EventB(kind, records[i])}
        pTargetGivenCompound ==
            IF Cardinality(dfCompound) > 0
            THEN Rat(Cardinality(dfCompound \cap rowsOfTarget), Cardinality(dfCompound))
            ELSE Zero
    IN  [pTarget |-> Round4(Rat(Cardinality(rowsOfTarget), total)),
         pA |-> Round4(Rat(Cardinality(rowsOfA), total)),
         pB |-> Round4(Rat(Cardinality(rowsOfB), total)),
         pCompound |-> Round4(Rat(Cardinality(dfCompound), total)),
         pTargetGivenCompound |-> Round4(pTargetGivenCompound)]

\* calculateProbabilities: a DataFrame built from an empty list has no
\* columns, so the first column access raises (which exception depends on how
\* pandas assigns the empty result of apply)
calculateProbabilities ==
    /\ ceOp' = "calculateProbabilities"
    /\ IF ceRecords = <<>>
       THEN /\ ceError' \in IF ceKind = "Fraud" THEN {"KeyError", "ValueError"}
                            ELSE {"KeyError"}
            /\ ceReturn' = None
       ELSE /\ ceReturn' = CalculateProbabilities(ceKind, ceRecords)
            /\ ceError' = "None"
    /\ UNCHANGED <<ceKind, ceRecords>>
    /\ UNCHANGED outsideCompound

NextCompound ==
    \/ addTransactions
    \/ calculateProbabilities

SpecCompound == InitCompound /\ [][NextCompound]_vars


\* calculateProbabilities has just returned for a non-empty list of records
CeReported == ceOp = "calculateProbabilities" /\ ceReturn # None

CeCompoundCount ==
    Cardinality({i \in DOMAIN ceRecords :
                    EventA(ceKind, ceRecords[i]) /\ EventB(ceKind, ceRecords[i])})

CeCompoundTargetCount ==
    Cardinality({i \in DOMAIN ceRecords :
                    /\ EventA(ceKind, ceRecords[i]) /\ EventB(ceKind, ceRecords[i])
                    /\ TargetEvent(ceKind, ceRecords[i])})

\* P(A and B) and P(target | A and B) as the ratios of the counts
CeCompoundRatio == Rat(CeCompoundCount, Len(ceRecords))

CeConditionalRatio ==
    IF CeCompoundCount = 0 THEN Zero ELSE Rat(CeCompoundTargetCount, CeCompoundCount)

\* x is y rounded to four decimal places
IsRoundedTo4(x, y) ==
    /\ (x[1] * 10000) % x[2] = 0
    /\ RLe(RAbs(RSub(x, y)), Rat(1, 20000))

\* C15 as stated: for every non-empty set of records calculateProbabilities
\* reports P(A and B) = count(A and B) / total and P(target | A and B) =
\* count(A and B and target) / count(A and B), the latter 0.0 when no record
\* satisfies A and B.
C15_CompoundRatiosExact ==
    CeReported =>
        /\ ceReturn.pCompound = CeCompoundRatio
        /\ ceReturn.pTargetGivenCompound = CeConditionalRatio

\* C15 as amended: the two reported probabilities are these ratios rounded to
\* four decimal places, the conditional one 0.0 when no record satisfies A
\* and B.
C15_CompoundRatiosRounded ==
    CeReported =>
        /\ IsRoundedTo4(ceReturn.pCompound, CeCompoundRatio)
        /\ IsRoundedTo4(ceReturn.pTargetGivenCompound, CeConditionalRatio)
        /\ CeCompoundCount = 0 => ceReturn.pTargetGivenCompound = Zero

\* three records, one of them in A and B: the reported 0.3333 is not 1/3
C15_Witness ==
    /\ CeReported
    /\ Len(ceRecords) = 3
    /\ CeCompoundCount = 1
    /\ ceReturn.pCompound = Rat(3333, 10000)


\* the fraction of records satisfying event A / event B
CeFractionA ==
    Rat(Cardinality({i \in DOMAIN ceRecords : EventA(ceKind, ceRecords[i])}),
        Len(ceRecords))

CeFractionB ==
    Rat(Cardinality({i \in DOMAIN ceRecords : EventB(ceKind, ceRecords[i])}),
        Len(ceRecords))

\* C27: the probabilities one calculateProbabilities call reports are mutually
\* consistent: each single-event probability is the fraction of records
\* satisfying that event (as reported, to four decimal places), and the
\* compound probability exceeds neither of its component probabilities.
C27_ProbabilitiesConsistent ==
    CeReported =>
        /\ IsRoundedTo4(ceReturn.pA, CeFractionA)
        /\ IsRoundedTo4(ceReturn.pB, CeFractionB)
        /\ RLe(ceReturn.pCompound, ceReturn.pA)
        /\ RLe(ceReturn.pCompound, ceReturn.pB)

-----------------------------------------------------------------------------
(* Loaders and what main() does with their result: SensorDataLoader with
   ExperimentController.execute of 001_SensorQualityAnalysis, BankingDataLoader
   with main of 004_BankTransactionFraudPFD and of 002_CustomerSpendingPatterns *)

LdScripts == {"SensorQuality", "BankFraud", "CustomerSpending"}

\* the columns the loader looks for
LdRequiredColumns(script) ==
    CASE script = "SensorQuality" ->
            {"timestamp", "machine_id", "sensor_value_primary", "sensor_value_secondary",
             "temperature_c", "humidity_percent", "vibration_level",
             "threshold_primary", "threshold_secondary", "label"}
      [] script = "BankFraud" -> {"Transaction_Amount", "Fraud_Flag"}
      [] script = "CustomerSpending" -> {"Transaction_Amount"}

\* the column the rest of main() reads
LdUsedColumn(script) ==
    IF script = "SensorQuality" THEN "label" ELSE "Transaction_Amount"

\* rows of a sheet; an amount cell may be empty (NaN)
LdRows(script) ==
    CASE script = "SensorQuality" -> [label : {Zero, One}]
      [] script = "BankFraud" ->
            [Transaction_Amount : {Int2Rat(1), Int2Rat(2), NaN}, Fraud_Flag : {0, 1}]
      [] script = "CustomerSpending" ->
            [Transaction_Amount : {Int2Rat(1), Int2Rat(2), NaN}]

\* an unreadable file, or a sheet with or without the column main() reads and
\* with any number of rows, none included
LdSources(script) ==
    {[readable |-> FALSE, columns |-> {}, rows |-> <<>>]} \cup
    [readable : {TRUE},
     columns : {LdRequiredColumns(script),
                LdRequiredColumns(script) \ {LdUsedColumn(script)}},
     rows : {<<>>} \cup SeqsUpTo(LdRows(script), MaxLdRows)]

InitLoaders ==
    /\ ldScript \in LdScripts
    /\ ldSource \in LdSources(ldScript)
    /\ ldDataFrame = None
    /\ ldSeries = None
    /\ ldStatistic = None
    /\ ldError = "None"
    /\ ldHandler = "none"
    /\ ldPc = "start"
    /\ IdleOutsideLoaders

\* the exception class each loader names for a failed load
TypedLoadError(script) ==
    IF script = "SensorQuality" THEN "DataLoadError" ELSE "BankingDataLoadError"

\* what the except clause around pd.read_excel raises. The spending script
\* writes "raise BankingDataLoader(str(error))": the object raised is a loader,
\* not an exception, and Python answers with a TypeError.
ReadFailure(script) ==
    IF script = "CustomerSpending" THEN "TypeError" ELSE TypedLoadError(script)

\* the exception of the column and null tests ("None" when they pass):
\* SensorDataLoader.load's missing-column list, BankingDataLoader._validateData
LdValidateData(script, source) ==
    IF ~(LdRequiredColumns(script) \subseteq source.columns)
    THEN IF script = "SensorQuality" THEN "InvalidDataFormatError"
         ELSE "BankingDataLoadError"
    ELSE IF /\ script # "SensorQuality"
            /\ \E i \in DOMAIN source.rows : source.rows[i].Transaction_Amount = NaN
    THEN "BankingDataLoadError"
    ELSE "None"

LdRaise(error) ==
    /\ ldError' = error
    /\ ldPc' = "failed"

\* load() / loadData(): no loader looks at the number of rows
ldLoadData ==
    /\ ldPc = "start"
    /\ IF ~ldSource.readable
       THEN LdRaise(ReadFailure(ldScript)) /\ UNCHANGED ldDataFrame
       ELSE IF LdValidateData(ldScript, ldSource) # "None"
       THEN LdRaise(LdValidateData(ldScript, ldSource)) /\ UNCHANGED ldDataFrame
       ELSE /\ ldDataFrame' = [columns |-> ldSource.columns, rows |-> ldSource.rows]
            /\ ldPc' = "loaded"
            /\ UNCHANGED ldError
    /\ UNCHANGED <<ldScript, ldSource, ldSeries, ldStatistic, ldHandler>>
    /\ UNCHANGED outsideLoaders

\* FraudTransactionFilter.getFraudTransactions: an empty selection is an error
getFraudTransactions ==
    /\ ldPc = "loaded"
    /\ ldScript = "BankFraud"
    /\ LET fraudDF == SelectSeq(ldDataFrame.rows, LAMBDA r : r.Fraud_Flag = 1)
       IN  IF fraudDF = <<>>
           THEN LdRaise("BankingDataLoadError") /\ UNCHANGED ldSeries
           ELSE /\ ldSeries' = Column(fraudDF, "Transaction_Amount")
                /\ ldPc' = "filtered"
                /\ UNCHANGED ldError
    /\ UNCHANGED <<ldScript, ldSource, ldDataFrame, ldStatistic, ldHandler>>
    /\ UNCHANGED outsideLoaders

\* ProbabilityExperiment.run -> computeEmpiricalProbability on the loaded
\* frame: totalPasses / totalRecords. With no record the quotient is 0 / 0:
\* a ZeroDivisionError wrapped as InvalidDataFormatError when the column sum is
\* a Python int, nan when it is a numpy float.
ldExperimentRun ==
    /\ ldPc = "loaded"
    /\ ldScript = "SensorQuality"
    /\ LET labels == Column(ldDataFrame.rows, "label")
       IN  IF labels = <<>>
           THEN \E outcome \in {"raises", "nan"} :
                   IF outcome = "raises"
                   THEN LdRaise("InvalidDataFormatError") /\ UNCHANGED ldStatistic
                   ELSE /\ ldStatistic' = [records |-> 0, value |-> NaN]
                        /\ ldPc' = "computed"
                        /\ UNCHANGED ldError
           ELSE /\ ldStatistic' = [records |-> Len(labels),
                                   value |-> EmpiricalProbability(labels)]
                /\ ldPc' = "computed"
                /\ UNCHANGED ldError
    /\ UNCHANGED <<ldScript, ldSource, ldDataFrame, ldSeries, ldHandler>>
    /\ UNCHANGED outsideLoaders

\* main() builds the engine with inNumberOfBins = 10 and calls
\* computeDistribution: on the fraud amounts in the fraud script, on the whole
\* Transaction_Amount column in the spending script
ldComputeDistribution ==
    /\ \/ ldPc = "filtered" /\ ldScript = "BankFraud"
       \/ ldPc = "loaded" /\ ldScript = "CustomerSpending"
    /\ LET series == IF ldScript = "BankFraud" THEN ldSeries
                     ELSE Column(ldDataFrame.rows, "Transaction_Amount")
       IN  ldStatistic' =
              [records |-> Len(series),
               value |-> ProbabilityColumn(Frequency(series, LdNumberOfBins))]
    /\ ldPc' = "computed"
    /\ UNCHANGED <<ldScript, ldSource, ldDataFrame, ldSeries, ldError, ldHandler>>
    /\ UNCHANGED outsideLoaders

\* the exception classes the first except clause of main() / execute() names
DataErrors(script) ==
    IF script = "SensorQuality"
    THEN {"DataLoadError", "InvalidDataFormatError", "ExperimentconfigurationError"}
    ELSE {"BankingDataLoadError"}

\* except <data errors> / except Exception
ldHandleError ==
    /\ ldPc = "failed"
    /\ ldHandler' = IF ldError \in DataErrors(ldScript)
                    THEN "data-error" ELSE "unexpected-error"
    /\ ldPc' = "handled"
    /\ UNCHANGED <<ldScript, ldSource, ldDataFrame, ldSeries, ldStatistic, ldError>>
    /\ UNCHANGED outsideLoaders

NextLoaders ==
    \/ ldLoadData
    \/ getFraudTransactions
    \/ ldExperimentRun
    \/ ldComputeDistribution
    \/ ldHandleError

SpecLoaders == InitLoaders /\ [][NextLoaders]_vars

\* C18: every loader rejects a source that parses to zero records with a
\* dataset-empty error: load / loadData never returns an empty dataset, and no
\* statistic is computed over zero records.
C18_EmptyDatasetRejected ==
    /\ ldDataFrame # None => ldDataFrame.rows # <<>>
    /\ ldStatistic # None => ldStatistic.records > 0
    /\ (ldPc # "start" /\ ldSource.readable /\ ldSource.rows = <<>>) => ldError # "None"

\* C19: when the spreadsheet cannot be read, loadData raises the loader's own
\* typed load error, and main reports it through its data-error handler, not
\* through the unexpected-error handler.
C19_UnreadableRaisesTypedError ==
    (ldPc # "start" /\ ~ldSource.readable) =>
        /\ ldError = TypedLoadError(ldScript)
        /\ ldPc = "handled" => ldHandler = "data-error"

-----------------------------------------------------------------------------
(* ExpectedValueCalculator of 001_ExpectedValueSalesDomain *)

SvRequiredColumns ==
    {"Sale ID", "Discount (%)", "Category", "Region", "Product Type", "Channel",
     "Cost (USD)", "Sales Revenue (USD)", "Profit (USD)"}

\* the cells of a row the calculator reads; revenue and cost are positive
SvRow(id, revenue, cost, profit) ==
    ("Sale ID" :> id) @@ ("Sales Revenue (USD)" :> revenue) @@
    ("Cost (USD)" :> cost) @@ ("Profit (USD)" :> profit)

SvRows ==
    {SvRow(id, Int2Rat(r), Int2Rat(c), Int2Rat(50)) :
        id \in {1, 2}, r \in {100, 200}, c \in {50, 100}}

\* a sheet with every required column, or without the cost column
SvSources ==
    {[exists |-> FALSE, xlsx |-> TRUE, columns |-> {}, rows |-> <<>>]} \cup
    {[exists |-> TRUE, xlsx |-> x, columns |-> cs,
      rows |-> [i \in DOMAIN rows |-> Restrict(rows[i], DOMAIN rows[i] \cap cs)]] :
        x \in BOOLEAN, cs \in {SvRequiredColumns, SvRequiredColumns \ {"Cost (USD)"}},
        rows \in {<<>>} \cup SeqsUpTo(SvRows, MaxSvRows)}

\* ExpectedValueCalculator(inFilePath): self.data = None
InitSales ==
    /\ svSource \in SvSources
    /\ svData = None
    /\ svOp = "none"
    /\ svReturn = None
    /\ svError = "None"
    /\ IdleOutsideSales

\* loadData: validateDataFile, read, emptiness test, validateRequiredColumns;
\* self.data is assigned as soon as the sheet is read
svLoadData ==
    /\ svOp' = "loadData"
    /\ svReturn' = None
    /\ IF validateDataFile(svSource) # "None"
       THEN /\ svError' = validateDataFile(svSource)
            /\ UNCHANGED svData
       ELSE /\ svData' = [columns |-> svSource.columns, rows |-> svSource.rows]
            /\ svError' = IF svSource.rows = <<>> THEN "EmptyDatasetError"
                          ELSE IF SvRequiredColumns \ svSource.columns # {}
                          THEN "MissingColumnError"
                          ELSE "None"
    /\ UNCHANGED svSource
    /\ UNCHANGED outsideSales

\* the cells of one column, in record order
SvColumn(data, name) == [i \in DOMAIN data.rows |-> data.rows[i][name]]

\* calculateExpectedValue: <<exception, returned value, self.data afterwards>>.
\* Reading a column the frame does not have raises KeyError at that line; the
\* columns assigned by the lines before it stay in self.data.
CalculateExpectedValue(data) ==
    IF data = None THEN <<"DataNotLoadedError", None, data>>
    ELSE IF "Sales Revenue (USD)" \notin data.columns THEN <<"KeyError", None, data>>
    ELSE
      LET revenue == SvColumn(data, "Sales Revenue (USD)")
          totalRevenue == RSum(revenue)
          probability == [i \in DOMAIN revenue |-> NumpyDivide(revenue[i], totalRevenue)]
          d1 == AddColumn(data, "Probability", probability)
          d2 == AddColumn(d1, "Contribution To EV (Weighted)", SeriesMul(revenue, probability))
          d3 == AddColumn(d2, "Cumulative Probability", CumSum(probability))
      IN  IF "Profit (USD)" \notin d3.columns THEN <<"KeyError", None, d3>>
          ELSE
            LET profit == SvColumn(d3, "Profit (USD)")
                d4 == AddColumn(d3, "Profit Margin (%)",
                          [i \in DOMAIN profit |->
                              RMul(NumpyDivide(profit[i], revenue[i]), Int2Rat(100))])
            IN  IF "Cost (USD)" \notin d4.columns THEN <<"KeyError", None, d4>>
                ELSE
                  LET cost == SvColumn(d4, "Cost (USD)")
                      d5 == AddColumn(d4, "Revenue-Cost Ratio",
                                [i \in DOMAIN cost |-> NumpyDivide(revenue[i], cost[i])])
                      d6 == AddColumn(d5, "Weighted Probability",
                                SeriesMul(profit, probability))
                      expectedValue == RSum(SeriesMul(revenue, probability))
                  IN  <<"None", <<expectedValue, totalRevenue>>, d6>>

calculateExpectedValue ==
    LET outcome == CalculateExpectedValue(svData)
    IN  /\ svOp' = "calculateExpectedValue"
        /\ svError' = outcome[1]
        /\ svReturn' = outcome[2]
        /\ svData' = outcome[3]
        /\ UNCHANGED svSource
        /\ UNCHANGED outsideSales

NextSales ==
    \/ svLoadData
    \/ calculateExpectedValue

SpecSales == InitSales /\ [][NextSales]_vars


\* the two engines that compute derived columns, each started on its own input
InitDerivedColumns == InitWeighted \/ InitSales

\* a run is one engine's script: only the engine that was started takes steps
NextDerivedColumns ==
    \/ wmPc # "idle" /\ NextWeighted
    \/ svOp # "idle" /\ NextSales

SpecDerivedColumns == InitDerivedColumns /\ [][NextDerivedColumns]_vars

\* the columns the sheet was read with, record by record, are still what was read
SameInputCells(frameRows, sourceRows) ==
    /\ Len(frameRows) = Len(sourceRows)
    /\ \A i \in DOMAIN sourceRows :
          \A c \in DOMAIN sourceRows[i] :
              /\ c \in DOMAIN frameRows[i]
              /\ frameRows[i][c] = sourceRows[i][c]

-----------------------------------------------------------------------------
(* The geometric-mean engines as objects: after loadDataset a caller may     *)
(* invoke the public methods one by one, in any order, instead of run().     *)
(* gmPc holds the name of the method called last, gmError what it raised,    *)
(* gmResult what the last compute call returned.                             *)

\* validateReturnRates / validateRates called on its own
validateRatesCall ==
    /\ gmDataFrame # None
    /\ gmPc' = "validateRates"
    /\ gmError' = IF HasInvalidRate(gmDataFrame.rows) THEN "InvalidRateError" ELSE "None"
    /\ UNCHANGED <<gmEngine, gmSource, gmDataFrame, gmResult, gmSaved>>
    /\ UNCHANGED outsideGeometric

\* computeGeometricMean called on its own: the aggregation counts the Year
\* column, whose absence is wrapped into the computation error; np.log of a
\* growth factor <= 0 gives -inf or nan with a warning, not an exception
computeGeometricMeanCall ==
    /\ gmDataFrame # None
    /\ gmEngine = "SimpleGM"
    /\ gmPc' = "computeGeometricMean"
    /\ IF GmRequiredColumns \subseteq gmDataFrame.columns
       THEN /\ gmResult' = SimpleGeometricMean(gmDataFrame.rows)
            /\ gmError' = "None"
       ELSE /\ gmResult' = None
            /\ gmError' = "GeometricMeanComputationError"
    /\ UNCHANGED <<gmEngine, gmSource, gmDataFrame, gmSaved>>
    /\ UNCHANGED outsideGeometric

\* computeRuntimeMetrics called on its own; only the investment engine reads
\* the Year column
computeRuntimeMetricsCall ==
    /\ gmDataFrame # None
    /\ gmEngine \in WeightedEngines
    /\ gmPc' = "computeRuntimeMetrics"
    /\ IF gmEngine = "InvestmentWGM" /\ "Year" \notin gmDataFrame.columns
       THEN /\ gmError' = "RuntimeMetricComputationError"
            /\ UNCHANGED gmDataFrame
       ELSE /\ gmError' = "None"
            /\ \E u \in [DOMAIN gmDataFrame.rows -> UniformDraws] :
                 /\ gmEngine = "PatientWGM" => \A i \in DOMAIN u : u[i] = Rat(4, 5)
                 /\ gmDataFrame' = [gmDataFrame EXCEPT !.metrics =
                        [i \in DOMAIN gmDataFrame.rows |->
                            RuntimeMetrics(gmEngine, gmDataFrame.rows, i, u[i])]]
    /\ UNCHANGED <<gmEngine, gmSource, gmResult, gmSaved>>
    /\ UNCHANGED outsideGeometric

\* computeWeights called on its own: without the metric columns the first
\* column access raises KeyError
computeWeightsCall ==
    /\ gmDataFrame # None
    /\ gmEngine \in WeightedEngines
    /\ gmPc' = "computeWeights"
    /\ IF Len(gmDataFrame.metrics) # Len(gmDataFrame.rows)
       THEN /\ gmError' = "KeyError"
            /\ UNCHANGED gmDataFrame
       ELSE /\ gmError' = "None"
            /\ gmDataFrame' = [gmDataFrame EXCEPT !.Weight =
                                  NormalizedWeights(gmEngine, gmDataFrame.metrics)]
    /\ UNCHANGED <<gmEngine, gmSource, gmResult, gmSaved>>
    /\ UNCHANGED outsideGeometric

\* computeWeightedGeometricMean called on its own: without the Weight column
\* the KeyError is wrapped into the computation error
computeWeightedGeometricMeanCall ==
    /\ gmDataFrame # None
    /\ gmEngine \in WeightedEngines
    /\ gmPc' = "computeWeightedGeometricMean"
    /\ IF Len(gmDataFrame.Weight) # Len(gmDataFrame.rows)
       THEN /\ gmResult' = None
            /\ gmError' = "WeightedGeometricMeanComputationError"
       ELSE /\ gmResult' = WeightedGeometricMean(gmDataFrame)
            /\ gmError' = "None"
    /\ UNCHANGED <<gmEngine, gmSource, gmDataFrame, gmSaved>>
    /\ UNCHANGED outsideGeometric

NextGeometricCalls ==
    \/ loadDataset
    \/ validateRatesCall
    \/ computeGeometricMeanCall
    \/ computeRuntimeMetricsCall
    \/ computeWeightsCall
    \/ computeWeightedGeometricMeanCall

SpecGeometricCalls == InitGeometric /\ [][NextGeometricCalls]_vars

\* C28: the rate guard does not depend on call order: whatever methods were
\* called before on a loaded engine, with or without validateReturnRates /
\* validateRates among them, computeGeometricMean and
\* computeWeightedGeometricMean never return a result for a dataset that
\* contains a rate <= -100.
C28_RateGuardAnyOrder ==
    (/\ gmPc \in {"computeGeometricMean", "computeWeightedGeometricMean"}
     /\ gmError = "None") =>
        ~HasInvalidRate(gmDataFrame.rows)


-----------------------------------------------------------------------------
(* Bias demonstrations: HiringSystem / BiasedHiringSystem of 001_BiasConcept, *)
(* HealthCareSystem / BiasedHealthCareSystem of 002_BiasHealthcareSystem and  *)
(* LoanApprovalSystem / BiasedLoanApprovalSystem of 003_BiasConcept.  Each    *)
(* script builds one system of either class and adds its subjects to both.    *)

BsKinds == {"Hiring", "HealthCare", "Loan"}
BsSystems == {"unbiased", "biased"}

\* Applicant / Patient / Customer objects a caller may add
BsSubjectsOf(kind) ==
    IF kind = "Hiring"
    THEN [inName : {"A"}, inExperience : {5, 7}, inEducation : {5},
          inGender : {"Female", "Male"}]
    ELSE IF kind = "HealthCare"
    THEN [inName : {"A"}, inAge : {60, 61}, inSeverity : {5, 6}, inHealthScore : {5}]
    ELSE [inName : {"A"}, inIncome : {100}, inCreditScore : {30, 40},
          inLoanAmount : {50}, inLocation : {"Rural", "Urban"}]

\* values a caller may pass as inThreshold (the defaults are 5.0, 5.0 and 50.0)
BsThresholdsOf(kind) ==
    IF kind = "Loan" THEN {Int2Rat(45), Int2Rat(50)} ELSE {Int2Rat(4), Int2Rat(5)}

\* __init__ of both systems: an empty list each
InitBias ==
    /\ bsKind \in BsKinds
    /\ bsSubjects = [sys \in BsSystems |-> <<>>]
    /\ bsOp = [method |-> "none", sys |-> "none"]
    /\ bsThreshold = None
    /\ bsReturn = None
    /\ IdleOutsideBias

\* addApplicants / addPatients / addCustomers on one of the two systems
addApplicants ==
    /\ \E sys \in BsSystems, inApplicant \in BsSubjectsOf(bsKind) :
          /\ Len(bsSubjects[sys]) < MaxSubjects
          /\ bsSubjects' = [bsSubjects EXCEPT ![sys] = Append(@, inApplicant)]
          /\ bsOp' = [method |-> "addApplicants", sys |-> sys]
    /\ bsThreshold' = None
    /\ bsReturn' = None
    /\ UNCHANGED bsKind
    /\ UNCHANGED outsideBias

\* scoreApplicant / scorePatient / scoreCustomer of the base class
BaseScore(kind, s) ==
    IF kind = "Hiring"
    THEN RAdd(RMul(Int2Rat(s.inExperience), Rat(6, 10)),
              RMul(Int2Rat(s.inEducation), Rat(4, 10)))
    ELSE IF kind = "HealthCare"
    THEN RAdd(RMul(Int2Rat(s.inSeverity), Rat(7, 10)),
              RMul(Int2Rat(s.inHealthScore), Rat(3, 10)))
    ELSE RSub(RAdd(RMul(Int2Rat(s.inIncome), Rat(4, 10)),
                   RMul(Int2Rat(s.inCreditScore), Rat(5, 10))),
              RMul(Int2Rat(s.inLoanAmount), Rat(1, 10)))

\* the healthcare override with the age test written >= 60
BiasedScoreFromSixty(kind, s) ==
    LET actualScore == BaseScore(kind, s)
    IN  IF kind = "Hiring"
        THEN IF s.inGender = "Female" THEN RSub(actualScore, One) ELSE actualScore
        ELSE IF kind = "HealthCare"
        THEN IF s.inAge >= 60 THEN RSub(actualScore, One) ELSE actualScore
        ELSE IF s.inLocation = "Rural" THEN RSub(actualScore, Int2Rat(5)) ELSE actualScore

\* scoreApplicant / scorePatient / scoreCustomer of the biased subclass
BiasedScore(kind, s) ==
    LET actualScore == BaseScore(kind, s)
    IN  IF kind = "Hiring"
        THEN IF s.inGender = "Female" THEN RSub(actualScore, One) ELSE actualScore
        ELSE IF kind = "HealthCare"
        THEN IF s.inAge > 60 THEN RSub(actualScore, One) ELSE actualScore
        ELSE IF s.inLocation = "Rural" THEN RSub(actualScore, Int2Rat(5)) ELSE actualScore

\* the labels makeDecisions hands out
AcceptLabel(kind) ==
    IF kind = "Hiring" THEN "Hired"
    ELSE IF kind = "HealthCare" THEN "High Priority" ELSE "Approved"

RejectLabel(kind) == IF kind = "HealthCare" THEN "Low Priority" ELSE "Rejected"

\* the attribute makeDecisions copies into the result tuple
BsAttribute(kind, s) ==
    IF kind = "Hiring" THEN s.inGender
    ELSE IF kind = "HealthCare" THEN s.inAge ELSE s.inLocation

\* a makeDecisions that reports the accepted subjects only
MakeDecisionsAcceptedOnly(kind, sys, subjects, inThreshold) ==
    LET all == [i \in DOMAIN subjects |->
                  LET score == IF sys = "biased" THEN BiasedScore(kind, subjects[i])
                               ELSE BaseScore(kind, subjects[i])
                  IN  [name |-> subjects[i].inName,
                       attribute |-> BsAttribute(kind, subjects[i]),
                       score |-> score,
                       decision |-> IF RLe(inThreshold, score) THEN AcceptLabel(kind)
                                    ELSE RejectLabel(kind)]]
    IN  SelectSeq(all, LAMBDA r : r.decision = AcceptLabel(kind))

\* makeDecisions: one tuple (name, attribute, score, decision) per subject,
\* in list order; the score comes from the system's own scoring method
MakeDecisions(kind, sys, subjects, inThreshold) ==
    [i \in DOMAIN subjects |->
        LET score == IF sys = "biased" THEN BiasedScore(kind, subjects[i])
                     ELSE BaseScore(kind, subjects[i])
        IN  [name |-> subjects[i].inName,
             attribute |-> BsAttribute(kind, subjects[i]),
             score |-> score,
             decision |-> IF RLe(inThreshold, score) THEN AcceptLabel(kind)
                          ELSE RejectLabel(kind)]]

makeDecisions ==
    /\ \E sys \in BsSystems, inThreshold \in BsThresholdsOf(bsKind) :
          /\ bsReturn' = MakeDecisions(bsKind, sys, bsSubjects[sys], inThreshold)
          /\ bsThreshold' = inThreshold
          /\ bsOp' = [method |-> "makeDecisions", sys |-> sys]
    /\ UNCHANGED <<bsKind, bsSubjects>>
    /\ UNCHANGED outsideBias

NextBias ==
    \/ addApplicants
    \/ makeDecisions

SpecBias == InitBias /\ [][NextBias]_vars


\* the trigger predicate and the penalty of each biased subclass, as stated
StatedTrigger(kind, s) ==
    IF kind = "Hiring" THEN s.inGender = "Female"
    ELSE IF kind = "HealthCare" THEN s.inAge > 60
    ELSE s.inLocation = "Rural"

StatedPenalty(kind) == IF kind = "Loan" THEN Int2Rat(5) ELSE One

\* makeDecisions has just returned on the biased system
BiasedDecided == bsOp.method = "makeDecisions" /\ bsOp.sys = "biased"

\* C25: in each bias-injecting subclass the score of a subject is the
\* base-class score minus a fixed penalty exactly when the trigger predicate
\* holds, and the base-class score otherwise: penalty 1.0 iff gender is
\* "Female" (hiring), 1.0 iff age > 60 (healthcare; age 60 is not penalized),
\* 5.0 iff location is "Rural" (loans).
C25_PenaltyIffTrigger ==
    BiasedDecided =>
        \A i \in DOMAIN bsReturn :
            LET s == bsSubjects["biased"][i]
                base == BaseScore(bsKind, s)
            IN  bsReturn[i].score =
                    IF StatedTrigger(bsKind, s)
                    THEN RSub(base, StatedPenalty(bsKind))
                    ELSE base

\* the biased healthcare system has scored a patient of 60 and one of 61
C25_Witness ==
    /\ BiasedDecided
    /\ bsKind = "HealthCare"
    /\ Len(bsReturn) = MaxSubjects
    /\ \E i, j \in DOMAIN bsReturn :
          /\ bsSubjects["biased"][i].inAge = 60
          /\ bsSubjects["biased"][j].inAge = 61
          /\ bsReturn[j].score = RSub(BaseScore(bsKind, bsSubjects["biased"][j]), One)

\* what the unbiased system returns, in this state, for the threshold of the
\* call just made
UnbiasedDecisions == MakeDecisions(bsKind, "unbiased", bsSubjects["unbiased"], bsThreshold)

\* C29: bias never promotes.  makeDecisions returns exactly one result per
\* added subject, in insertion order; and when both systems hold the same
\* subjects, for the same threshold every subject the biased system accepts
\* is accepted by the unbiased system too, and a subject for whom the trigger
\* predicate is false gets the same score and decision from both.
C29_BiasNeverPromotes ==
    bsOp.method = "makeDecisions" =>
        /\ Len(bsReturn) = Len(bsSubjects[bsOp.sys])
        /\ \A i \in DOMAIN bsReturn :
              /\ bsReturn[i].name = bsSubjects[bsOp.sys][i].inName
              /\ bsReturn[i].attribute = BsAttribute(bsKind, bsSubjects[bsOp.sys][i])
        /\ (bsOp.sys = "biased" /\ bsSubjects["biased"] = bsSubjects["unbiased"]) =>
              \A i \in DOMAIN bsReturn :
                  /\ bsReturn[i].decision = AcceptLabel(bsKind)
                        => UnbiasedDecisions[i].decision = AcceptLabel(bsKind)
                  /\ ~StatedTrigger(bsKind, bsSubjects["biased"][i])
                        => /\ bsReturn[i].score = UnbiasedDecisions[i].score
                           /\ bsReturn[i].decision = UnbiasedDecisions[i].decision

\* both systems hold the same two subjects; the biased system rejects one the
\* unbiased system accepts and treats the other as the unbiased system does
C29_Witness ==
    /\ BiasedDecided
    /\ bsSubjects["biased"] = bsSubjects["unbiased"]
    /\ Len(bsReturn) = MaxSubjects
    /\ \E i, j \in DOMAIN bsReturn :
          /\ bsReturn[i].decision = RejectLabel(bsKind)
          /\ UnbiasedDecisions[i].decision = AcceptLabel(bsKind)
          /\ ~StatedTrigger(bsKind, bsSubjects["biased"][j])
          /\ bsReturn[j].decision = AcceptLabel(bsKind)


-----------------------------------------------------------------------------
(* Discrete call-drop distribution: ProbabilityFrequencyDistributionEngine    *)
(* and TelecomInsightEngine of 001_TelecomNetworkCallDropPFD.  The            *)
(* Probability column is float64 and highRiskProbability adds its entries one *)
(* after the other, so the comparison with 0.4 sees the rounded sum.  A       *)
(* non-negative float is [e, m]: m the MantissaBits bits of the significand,  *)
(* leading bit first, e the binary exponent of the leading bit; 0.0 has no    *)
(* bits.                                                                      *)

FloatZero == [e |-> 0, m |-> <<>>]

BitZeros(n) == [i \in 1..n |-> 0]

\* the carry that enters bit i of x + y from the bits to its right: some bit
\* generates one and every bit in between passes it on
CarryInto(x, y, i) ==
    \E j \in (i + 1)..Len(x) :
        /\ x[j] = 1 /\ y[j] = 1
        /\ \A k \in (i + 1)..(j - 1) : x[k] + y[k] = 1

\* x + y on bit strings of equal length; the result has one more bit
AddBits(x, y) ==
    [i \in 1..(Len(x) + 1) |->
        IF i = 1 THEN (IF CarryInto(x, y, 0) THEN 1 ELSE 0)
        ELSE (x[i - 1] + y[i - 1] + (IF CarryInto(x, y, i - 1) THEN 1 ELSE 0)) % 2]

\* the significand plus one unit in the last place
FloatNextUp(f) ==
    LET bumped == AddBits(f.m, BitZeros(Len(f.m) - 1) \o <<1>>)
    IN  IF bumped[1] = 1 THEN [e |-> f.e + 1, m |-> SubSeq(bumped, 1, Len(f.m))]
        ELSE [e |-> f.e, m |-> Tail(bumped)]

\* round to nearest, ties to even: up is "more than half", tie is "exactly half"
FloatRound(f, up, tie) ==
    IF up \/ (tie /\ f.m[Len(f.m)] = 1) THEN FloatNextUp(f) ELSE f

\* 2^k modulo d, by repeated squaring
RECURSIVE Pow2Mod(_, _)
Pow2Mod(k, d) ==
    IF k = 0 THEN 1 % d
    ELSE IF k % 2 = 0 THEN (Pow2Mod(k \div 2, d) * Pow2Mod(k \div 2, d)) % d
    ELSE (2 * Pow2Mod(k - 1, d)) % d

\* the remainder of the long division r / d after k quotient bits, r < d
DivRemainder(r, d, k) == (r * Pow2Mod(k, d)) % d

\* the next k quotient bits of r / d, and the remainder after them
DivBits(r, d, k) ==
    << [i \in 1..k |-> IF 2 * DivRemainder(r, d, i - 1) >= d THEN 1 ELSE 0],
       DivRemainder(r, d, k) >>

\* the least s with n * 2^s >= d
RECURSIVE ShiftTo(_, _)
ShiftTo(n, d) == IF n >= d THEN 0 ELSE 1 + ShiftTo(2 * n, d)

\* int64 / int64 as float64, for 0 <= n <= d, d > 0: the correctly rounded quotient
FloatDiv(n, d) ==
    IF n = 0 THEN FloatZero
    ELSE LET shifted == ShiftTo(n, d)
             q == DivBits(n * (2 ^ shifted) - d, d, MantissaBits - 1)
         IN  FloatRound([e |-> 0 - shifted, m |-> <<1>> \o q[1]],
                        2 * q[2] > d, 2 * q[2] = d)

\* float64 a + b: the exact sum rounded to MantissaBits bits, ties to even
FloatAdd(a, b) ==
    IF a = FloatZero THEN b ELSE IF b = FloatZero THEN a
    ELSE LET hi == IF a.e >= b.e THEN a ELSE b
             lo == IF a.e >= b.e THEN b ELSE a
             shift == hi.e - lo.e
             total == AddBits(hi.m \o BitZeros(shift), BitZeros(shift) \o lo.m)
             exact == IF total[1] = 1 THEN [e |-> hi.e + 1, m |-> total]
                      ELSE [e |-> hi.e, m |-> Tail(total)]
             kept == SubSeq(exact.m, 1, MantissaBits)
             rest == SubSeq(exact.m, MantissaBits + 1, Len(exact.m))
             half == rest # <<>> /\ rest[1] = 1
             below == \E i \in 2..Len(rest) : rest[i] = 1
         IN  FloatRound([e |-> exact.e, m |-> kept], half /\ below, half /\ ~below)

\* a > b on non-negative floats
FloatGt(a, b) ==
    IF a = FloatZero THEN FALSE
    ELSE IF b = FloatZero THEN TRUE
    ELSE \/ a.e > b.e
         \/ /\ a.e = b.e
            /\ \E i \in DOMAIN a.m :
                  /\ a.m[i] = 1 /\ b.m[i] = 0
                  /\ \A j \in 1..(i - 1) : a.m[j] = b.m[j]

\* Series.sum(): the entries added one after the other, starting from 0.0
RECURSIVE FloatSum(_)
FloatSum(s) ==
    IF s = <<>> THEN FloatZero
    ELSE FloatAdd(FloatSum(SubSeq(s, 1, Len(s) - 1)), s[Len(s)])


\* Call_Drops values of the bounded series
TcValues == {4, 5, 6}

\* forty hourly records: twenty-four without a drop, and 5, 6, 7 and 8 drops
\* counted once, thirteen times, once and once
BoundaryExample ==
    [i \in 1..40 |-> IF i <= 24 THEN 0
                     ELSE IF i = 25 THEN 5
                     ELSE IF i <= 38 THEN 6
                     ELSE IF i = 39 THEN 7 ELSE 8]

\* ProbabilityFrequencyDistributionEngine(inCallDropsSeries)
InitTelecom ==
    /\ \/ tcSeries \in {<<>>} \cup SeqsUpTo(TcValues, MaxTcRows)
       \/ tcSeries = BoundaryExample
    /\ tcDistribution = None
    /\ tcOp = "none"
    /\ tcReturn = None
    /\ tcError = "None"
    /\ IdleOutsideTelecom

\* sort_index(): the distinct values in ascending order
RECURSIVE SortIndex(_)
SortIndex(S) ==
    IF S = {} THEN <<>>
    ELSE LET least == CHOOSE v \in S : \A w \in S : v <= w
         IN  <<least>> \o SortIndex(S \ {least})

\* value_counts().sort_index().reset_index() with the Probability column
\* Frequency / Frequency.sum()
Distribution(series) ==
    LET index == SortIndex({series[i] : i \in DOMAIN series})
    IN  [k \in DOMAIN index |->
            LET frequency == Cardinality({i \in DOMAIN series : series[i] = index[k]})
            IN  [Call_Drops_Per_Hour |-> index[k],
                 Frequency |-> frequency,
                 Probability |-> FloatDiv(frequency, Len(series))]]

tcComputeDistribution ==
    /\ tcDistribution' = [rows |-> Distribution(tcSeries)]
    /\ tcOp' = "computeDistribution"
    /\ tcReturn' = None
    /\ tcError' = "None"
    /\ UNCHANGED tcSeries
    /\ UNCHANGED outsideTelecom

\* Series.idxmax(): the first row whose Probability no other row exceeds
IdxMax(rows) ==
    CHOOSE i \in DOMAIN rows :
        /\ \A j \in DOMAIN rows : ~FloatGt(rows[j].Probability, rows[i].Probability)
        /\ \A j \in 1..(i - 1) : FloatGt(rows[i].Probability, rows[j].Probability)

\* mostLikelyCallDrops: idxmax of an empty column raises ValueError
mostLikelyCallDrops ==
    /\ tcDistribution # None
    /\ IF tcDistribution.rows = <<>>
       THEN /\ tcError' = "ValueError"
            /\ tcReturn' = None
       ELSE /\ tcError' = "None"
            /\ tcReturn' =
                  tcDistribution.rows[IdxMax(tcDistribution.rows)].Call_Drops_Per_Hour
    /\ tcOp' = "mostLikelyCallDrops"
    /\ UNCHANGED <<tcSeries, tcDistribution>>
    /\ UNCHANGED outsideTelecom

\* highRiskProbability(threshold): the Probability entries of the rows with
\* Call_Drops_Per_Hour >= threshold, summed in row order
HighRiskProbability(rows, threshold) ==
    LET selected == SelectSeq(rows, LAMBDA r : r.Call_Drops_Per_Hour >= threshold)
    IN  FloatSum([k \in DOMAIN selected |-> selected[k].Probability])

\* the float64 literal 0.4
PointFour == FloatDiv(2, 5)

\* networkStatus: "Unstable" if self.highRiskProbability() > 0.4 else "Stable"
networkStatus ==
    /\ tcDistribution # None
    /\ tcReturn' = IF FloatGt(HighRiskProbability(tcDistribution.rows, 5), PointFour)
                   THEN "Unstable" ELSE "Stable"
    /\ tcError' = "None"
    /\ tcOp' = "networkStatus"
    /\ UNCHANGED <<tcSeries, tcDistribution>>
    /\ UNCHANGED outsideTelecom

NextTelecom ==
    \/ tcComputeDistribution
    \/ mostLikelyCallDrops
    \/ networkStatus

SpecTelecom == InitTelecom /\ [][NextTelecom]_vars

\* the number of records with value v, and with Call_Drops >= 5
TcFrequency(v) == Cardinality({i \in DOMAIN tcSeries : tcSeries[i] = v})

TcHighRiskCount == Cardinality({i \in DOMAIN tcSeries : tcSeries[i] >= 5})

\* C30: networkStatus returns "Unstable" exactly when the fraction of records
\* with Call_Drops >= 5 is strictly greater than 0.4 (that is, 5 * count >
\* 2 * total) and "Stable" otherwise, a fraction of exactly 0.4 being Stable;
\* mostLikelyCallDrops returns a value of maximum frequency, the smallest
\* such value when several tie.
C30_StatusAndMode ==
    /\ tcOp = "networkStatus" =>
          tcReturn = IF 5 * TcHighRiskCount > 2 * Len(tcSeries)
                     THEN "Unstable" ELSE "Stable"
    /\ (tcOp = "mostLikelyCallDrops" /\ tcError = "None") =>
          \A i \in DOMAIN tcSeries :
              /\ TcFrequency(tcSeries[i]) <= TcFrequency(tcReturn)
              /\ TcFrequency(tcSeries[i]) = TcFrequency(tcReturn)
                    => tcReturn <= tcSeries[i]

====
